---- MODULE Spec2Model ----
(***************************************************************************)
(* Model of the CrewAI DM orchestrator service                             *)
(* (ai-adventure-scribe-main/crewai-service/main.py).                      *)
(*                                                                         *)
(* Texts are sequences of one-character strings, so that the regular       *)
(* expressions, substring tests, strip/split/lower calls of the code are   *)
(* modelled by what they do on characters.                                 *)
(***************************************************************************)
EXTENDS Integers, Sequences, FiniteSets, TLC

\* None, where the code holds a number or None
Null == -1

(***************************************************************************)
(* Character classes of Python's re module and str methods, restricted to  *)
(* the ASCII characters the model's texts are built from.                  *)
(***************************************************************************)
Digits == <<"0", "1", "2", "3", "4", "5", "6", "7", "8", "9">>

LowerAlphabet ==
    <<"a", "b", "c", "d", "e", "f", "g", "h", "i", "j", "k", "l", "m",
      "n", "o", "p", "q", "r", "s", "t", "u", "v", "w", "x", "y", "z">>

UpperAlphabet ==
    <<"A", "B", "C", "D", "E", "F", "G", "H", "I", "J", "K", "L", "M",
      "N", "O", "P", "Q", "R", "S", "T", "U", "V", "W", "X", "Y", "Z">>

\* the characters \d matches
DigitChars == {Digits[d] : d \in 1..10}

\* the letters
LetterChars == {LowerAlphabet[i] : i \in 1..26} \cup {UpperAlphabet[i] : i \in 1..26}

IsDigit(c) == c \in DigitChars

\* a character \w matches
IsWordChar(c) == c \in DigitChars \/ c \in LetterChars \/ c = "_"

\* a character \s matches
IsSpace(c) == c \in {" ", "\n", "\t"}

\* the lower-case letter of each upper-case letter
LowerOf ==
    [c \in {UpperAlphabet[i] : i \in 1..26} |->
        LowerAlphabet[CHOOSE i \in 1..26 : UpperAlphabet[i] = c]]

\* str.lower() on one character
LowerChar(c) == IF c \in DOMAIN LowerOf THEN LowerOf[c] ELSE c

\* str.lower()
lower(s) == [i \in 1..Len(s) |-> LowerChar(s[i])]

\* the first position >= p of s that holds no whitespace (Len(s)+1 if none): greedy \s*
RECURSIVE SkipSpaces(_, _)
SkipSpaces(s, p) == IF p <= Len(s) /\ IsSpace(s[p]) THEN SkipSpaces(s, p + 1) ELSE p

\* the last position <= p of s that holds no whitespace (0 if none)
RECURSIVE SkipSpacesBack(_, _)
SkipSpacesBack(s, p) == IF p >= 1 /\ IsSpace(s[p]) THEN SkipSpacesBack(s, p - 1) ELSE p

\* str.strip()
strip(s) ==
    LET a == SkipSpaces(s, 1)
        b == SkipSpacesBack(s, Len(s))
    IN  IF a > b THEN <<>> ELSE SubSeq(s, a, b)

\* the first position >= p of s that holds character c (Len(s)+1 if none)
RECURSIVE Find(_, _, _)
Find(s, c, p) == IF p <= Len(s) /\ s[p] # c THEN Find(s, c, p + 1) ELSE p

\* str.splitlines() for texts whose only line break is "\n"
RECURSIVE splitlines(_)
splitlines(s) ==
    IF s = <<>> THEN <<>>
    ELSE LET n == Find(s, "\n", 1)
         IN  <<SubSeq(s, 1, n - 1)>> \o splitlines(SubSeq(s, n + 1, Len(s)))

\* sep.join(parts)
RECURSIVE join(_, _)
join(sep, parts) ==
    IF parts = <<>> THEN <<>>
    ELSE IF Len(parts) = 1 THEN parts[1]
    ELSE parts[1] \o sep \o join(sep, Tail(parts))

\* "p in s" for strings: p occurs in s as a substring
In(p, s) ==
    \E i \in 1..(Len(s) - Len(p) + 1) : \A j \in 1..Len(p) : s[i + j - 1] = p[j]

(***************************************************************************)
(* generate_options.normalize_options                                      *)
(***************************************************************************)
\* variant of Filler: the padding entry carries no letter
Filler_Unlettered(label) ==
    <<"*", "*", "E", "x", "p", "l", "o", "r", "e", " ", "a", "n", "o", "t", "h", "e",
      "r", " ", "a", "n", "g", "l", "e", "*", "*", ",", " ", "a", "d", "a", "p", "t",
      " ", "y", "o", "u", "r", " ", "a", "p", "p", "r", "o", "a", "c", "h", " ", "t",
      "o", " ", "t", "h", "e", " ", "s", "i", "t", "u", "a", "t", "i", "o", "n", ".">>

\* the padding entry of letter label: f"{label}. **Explore another angle**, adapt ..."
Filler(label) ==
    <<label, ".", " ", "*", "*", "E", "x", "p", "l", "o", "r", "e", " ", "a", "n", "o",
      "t", "h", "e", "r", " ", "a", "n", "g", "l", "e", "*", "*", ",", " ", "a", "d",
      "a", "p", "t", " ", "y", "o", "u", "r", " ", "a", "p", "p", "r", "o", "a", "c",
      "h", " ", "t", "o", " ", "t", "h", "e", " ", "s", "i", "t", "u", "a", "t", "i",
      "o", "n", ".">>

\* re.match(r"^([A-C])\.\s*(.*)$", ln) succeeds
OptionLineMatches(ln) ==
    Len(ln) >= 2 /\ ln[1] \in {"A", "B", "C"} /\ ln[2] = "."

\* variant of FormatOption: the body is split on its last comma
FormatOption_LastComma(ln) ==
    LET body   == strip(SubSeq(ln, SkipSpaces(ln, 3), Len(ln)))
        commas == {k \in 1..Len(body) : body[k] = ","}
    IN  IF commas # {}
        THEN LET c    == CHOOSE k \in commas : \A j \in commas : j <= k
                 head == SubSeq(body, 1, c - 1)
                 tail == SubSeq(body, c + 1, Len(body))
             IN  <<ln[1], ".", " ", "*", "*">> \o strip(head) \o <<"*", "*", ",", " ">> \o strip(tail)
        ELSE <<ln[1], ".", " ", "*", "*">> \o body \o <<"*", "*">>

\* FormatOption with the bold markers left out of the branch without a comma
FormatOption_PlainBody(ln) ==
    LET body == strip(SubSeq(ln, SkipSpaces(ln, 3), Len(ln)))
        c    == Find(body, ",", 1)
    IN  IF c <= Len(body)
        THEN LET head == SubSeq(body, 1, c - 1)
                 tail == SubSeq(body, c + 1, Len(body))
             IN  <<ln[1], ".", " ", "*", "*">> \o strip(head) \o <<"*", "*", ",", " ">> \o strip(tail)
        ELSE <<ln[1], ".", " ">> \o body

\* the line as reformatted by the loop body, for a line the pattern matches
FormatOption(ln) ==
    LET body == strip(SubSeq(ln, SkipSpaces(ln, 3), Len(ln)))
        c    == Find(body, ",", 1)
    IN  IF c <= Len(body)
        THEN LET head == SubSeq(body, 1, c - 1)
                 tail == SubSeq(body, c + 1, Len(body))
             IN  <<ln[1], ".", " ", "*", "*">> \o strip(head) \o <<"*", "*", ",", " ">> \o strip(tail)
        ELSE <<ln[1], ".", " ", "*", "*">> \o body \o <<"*", "*">>

\* the stripped non-empty lines of raw
StrippedLines(raw) ==
    LET ls == splitlines(raw)
    IN  SelectSeq([i \in 1..Len(ls) |-> strip(ls[i])], LAMBDA ln : ln # <<>>)

\* the for loop: one formatted entry per line the pattern matches, in order
PickOptions(lines) ==
    LET ok == SelectSeq(lines, OptionLineMatches)
    IN  [i \in 1..Len(ok) |-> FormatOption(ok[i])]

\* the while loop: pad with the generic entry labelled by the current length
RECURSIVE PadOptions(_)
PadOptions(picked) ==
    IF Len(picked) < 3
    THEN PadOptions(Append(picked, Filler(<<"A", "B", "C">>[Len(picked) + 1])))
    ELSE picked

\* normalize_options without the final picked[:3]
normalize_options_NoTruncation(raw) ==
    PadOptions(PickOptions(StrippedLines(raw)))

normalize_options(raw) ==
    LET padded == PadOptions(PickOptions(StrippedLines(raw)))
    IN  SubSeq(padded, 1, 3)

(***************************************************************************)
(* respond.roll_followup_from_history: the reported roll total             *)
(***************************************************************************)
\* \b at position p of s: exactly one of s[p-1], s[p] is a word character
WordBoundary(s, p) ==
    (p > 1 /\ IsWordChar(s[p - 1])) # (p <= Len(s) /\ IsWordChar(s[p]))

\* the literal lit stands at position p of s
StartsWith(s, p, lit) ==
    /\ p >= 1
    /\ p + Len(lit) - 1 <= Len(s)
    /\ \A j \in 1..Len(lit) : s[p + j - 1] = lit[j]

\* the first position >= p of s that holds no digit (Len(s)+1 if none): greedy \d+
RECURSIVE SkipDigits(_, _)
SkipDigits(s, p) == IF p <= Len(s) /\ IsDigit(s[p]) THEN SkipDigits(s, p + 1) ELSE p

\* the first position >= p of s that holds a digit (Len(s)+1 if none): greedy [^\d]*
RECURSIVE SkipNonDigits(_, _)
SkipNonDigits(s, p) == IF p <= Len(s) /\ ~IsDigit(s[p]) THEN SkipNonDigits(s, p + 1) ELSE p

\* (\d+)\b at position p: the digits captured, <<>> when it does not match. The
\* greedy run is the only candidate: a shorter run ends between two digits, where
\* \b does not hold.
CaptureNumber(s, p) ==
    LET e == SkipDigits(s, p)
    IN  IF e > p /\ WordBoundary(s, e) THEN SubSeq(s, p, e - 1) ELSE <<>>

Word_rolled == <<"r", "o", "l", "l", "e", "d">>

Word_total == <<"t", "o", "t", "a", "l">>

\* r"\bi\s*rolled\s*(\d+)\b" matched at position i: group 1, <<>> when no match
MatchIRolled(s, i) ==
    IF WordBoundary(s, i) /\ StartsWith(s, i, <<"i">>)
    THEN LET r == SkipSpaces(s, i + 1)
         IN  IF StartsWith(s, r, Word_rolled)
             THEN CaptureNumber(s, SkipSpaces(s, r + 6))
             ELSE <<>>
    ELSE <<>>

\* r"rolled[^\d]*(\d+)\b" matched at position i: group 1, <<>> when no match
MatchRolled(s, i) ==
    IF StartsWith(s, i, Word_rolled)
    THEN CaptureNumber(s, SkipNonDigits(s, i + 6))
    ELSE <<>>

\* r"\btotal\s*[:=]\s*(\d+)\b" matched at position i: group 1, <<>> when no match
MatchTotal(s, i) ==
    IF WordBoundary(s, i) /\ StartsWith(s, i, Word_total)
    THEN LET c == SkipSpaces(s, i + 5)
         IN  IF c <= Len(s) /\ s[c] \in {":", "="}
             THEN CaptureNumber(s, SkipSpaces(s, c + 1))
             ELSE <<>>
    ELSE <<>>

Word_dc == <<"d", "c">>

Word_difficulty == <<"d", "i", "f", "f", "i", "c", "u", "l", "t", "y">>

Word_class == <<"c", "l", "a", "s", "s">>

Word_ac == <<"a", "c">>

\* r"\b(?:dc|difficulty\s*class)\s*(\d+)\b" matched at position i: group 1, <<>> when
\* no match
MatchDC(s, i) ==
    IF ~WordBoundary(s, i) THEN <<>>
    ELSE IF StartsWith(s, i, Word_dc) THEN CaptureNumber(s, SkipSpaces(s, i + 2))
    ELSE IF StartsWith(s, i, Word_difficulty)
         THEN LET c == SkipSpaces(s, i + 10)
              IN  IF StartsWith(s, c, Word_class)
                  THEN CaptureNumber(s, SkipSpaces(s, c + 5))
                  ELSE <<>>
    ELSE <<>>

\* r"\b(?:ac)\s*(\d+)\b" matched at position i: group 1, <<>> when no match
MatchAC(s, i) ==
    IF WordBoundary(s, i) /\ StartsWith(s, i, Word_ac)
    THEN CaptureNumber(s, SkipSpaces(s, i + 2))
    ELSE <<>>

\* pattern k matched at position i of s: group 1, <<>> when no match
MatchAt(k, s, i) ==
    CASE k = "i_rolled" -> MatchIRolled(s, i)
      [] k = "rolled" -> MatchRolled(s, i)
      [] k = "total" -> MatchTotal(s, i)
      [] k = "dc" -> MatchDC(s, i)
      [] k = "ac" -> MatchAC(s, i)

\* re.search(pattern k, s): group 1 of the match at the leftmost position, <<>> when
\* the pattern matches nowhere
search(k, s) ==
    LET hits == {i \in 1..Len(s) : MatchAt(k, s, i) # <<>>}
    IN  IF hits = {} THEN <<>>
        ELSE MatchAt(k, s, CHOOSE i \in hits : \A j \in hits : i <= j)

DigitValue(c) == CHOOSE d \in 0..9 : Digits[d + 1] = c

\* int() of a string of digits
RECURSIVE int(_)
int(ds) ==
    IF ds = <<>> THEN 0
    ELSE 10 * int(SubSeq(ds, 1, Len(ds) - 1)) + DigitValue(ds[Len(ds)])

\* RollResult with the second pattern tried before the first
RollResult_RolledFirst(msg) ==
    LET m  == lower(msg)
        m1 == search("i_rolled", m)
        m2 == search("rolled", m)
        m3 == search("total", m)
    IN  IF m2 # <<>> THEN int(m2)
        ELSE IF m1 # <<>> THEN int(m1)
        ELSE IF m3 # <<>> THEN int(m3)
        ELSE Null

\* the loop over the three patterns: the number the first pattern that matches
\* captured, Null when none matches
\* variant of RollResult: no pattern ever matches
RollResult_NoMatch(msg) == Null

RollResult(msg) ==
    LET m  == lower(msg)
        m1 == search("i_rolled", m)
        m2 == search("rolled", m)
        m3 == search("total", m)
    IN  IF m1 # <<>> THEN int(m1)
        ELSE IF m2 # <<>> THEN int(m2)
        ELSE IF m3 # <<>> THEN int(m3)
        ELSE Null

(***************************************************************************)
(* respond.roll_followup_from_history: the scan of the history             *)
(***************************************************************************)
\* how many of the last turns of the history are scanned: history[-8:]
ScanWindow == 8

\* skill_list
skill_list ==
    << <<"s", "t", "e", "a", "l", "t", "h">>,
       <<"p", "e", "r", "c", "e", "p", "t", "i", "o", "n">>,
       <<"i", "n", "v", "e", "s", "t", "i", "g", "a", "t", "i", "o", "n">>,
       <<"a", "t", "h", "l", "e", "t", "i", "c", "s">>,
       <<"a", "c", "r", "o", "b", "a", "t", "i", "c", "s">>,
       <<"i", "n", "s", "i", "g", "h", "t">>,
       <<"p", "e", "r", "s", "u", "a", "s", "i", "o", "n">>,
       <<"d", "e", "c", "e", "p", "t", "i", "o", "n">>,
       <<"i", "n", "t", "i", "m", "i", "d", "a", "t", "i", "o", "n">>,
       <<"s", "u", "r", "v", "i", "v", "a", "l">>,
       <<"a", "r", "c", "a", "n", "a">>,
       <<"h", "i", "s", "t", "o", "r", "y">>,
       <<"r", "e", "l", "i", "g", "i", "o", "n">>,
       <<"n", "a", "t", "u", "r", "e">>,
       <<"m", "e", "d", "i", "c", "i", "n", "e">>,
       <<"p", "e", "r", "f", "o", "r", "m", "a", "n", "c", "e">>,
       <<"s", "l", "e", "i", "g", "h", "t", " ", "o", "f", " ", "h", "a", "n", "d">>,
       <<"a", "n", "i", "m", "a", "l", " ", "h", "a", "n", "d", "l", "i", "n", "g">> >>

\* saves
saves ==
    << <<"s", "t", "r", "e", "n", "g", "t", "h">>,
       <<"d", "e", "x", "t", "e", "r", "i", "t", "y">>,
       <<"c", "o", "n", "s", "t", "i", "t", "u", "t", "i", "o", "n">>,
       <<"i", "n", "t", "e", "l", "l", "i", "g", "e", "n", "c", "e">>,
       <<"w", "i", "s", "d", "o", "m">>,
       <<"c", "h", "a", "r", "i", "s", "m", "a">> >>

Phrase_check == <<" ", "c", "h", "e", "c", "k">>

Phrase_roll == <<"r", "o", "l", "l", " ">>

Phrase_roll_for == <<"r", "o", "l", "l", " ", "f", "o", "r", " ">>

Phrase_saving_throw == <<" ", "s", "a", "v", "i", "n", "g", " ", "t", "h", "r", "o", "w">>

Phrase_initiative == <<"i", "n", "i", "t", "i", "a", "t", "i", "v", "e">>

Phrase_roll_initiative == <<"r", "o", "l", "l", " ", "i", "n", "i", "t", "i", "a", "t", "i", "v", "e">>

Phrase_attack_roll == <<"a", "t", "t", "a", "c", "k", " ", "r", "o", "l", "l">>

Phrase_make_an_attack == <<"m", "a", "k", "e", " ", "a", "n", " ", "a", "t", "t", "a", "c", "k">>

Phrase_please_roll_attack == <<"p", "l", "e", "a", "s", "e", " ", "r", "o", "l", "l", " ", "a", "t", "t", "a",
      "c", "k">>

\* the number a pattern found in the content, Null when it matches nowhere
Mention(k, content) ==
    LET g == search(k, content) IN IF g = <<>> THEN Null ELSE int(g)

\* the skill phrases of skill s occur in the content
SkillPhraseIn(s, content) ==
    \/ In(s \o Phrase_check, content)
    \/ In(Phrase_roll \o s, content)
    \/ In(Phrase_roll_for \o s, content)

\* the least element of a non-empty set of numbers
Least(S) == CHOOSE k \in S : \A j \in S : k <= j

\* variant of FirstSkill: the loop over skill_list does not break at its first hit
FirstSkill_LastHit(content) ==
    LET hits == {k \in 1..Len(skill_list) : SkillPhraseIn(skill_list[k], content)}
    IN  IF hits = {} THEN 0 ELSE CHOOSE k \in hits : \A j \in hits : k >= j

\* the index in skill_list of the first skill whose phrases occur in the content, 0 if
\* none does
FirstSkill(content) ==
    LET hits == {k \in 1..Len(skill_list) : SkillPhraseIn(skill_list[k], content)}
    IN  IF hits = {} THEN 0 ELSE Least(hits)

\* the index in saves of the first ability whose saving throw the content names, 0 if
\* none is
FirstSave(content) ==
    LET hits == {k \in 1..Len(saves) : In(saves[k] \o Phrase_saving_throw, content)}
    IN  IF hits = {} THEN 0 ELSE Least(hits)

\* variant of ClassifyTurn: the saving throws are looked for before the skills
ClassifyTurn_SaveFirst(content) ==
    IF In(Phrase_initiative, content) \/ In(Phrase_roll_initiative, content)
    THEN [kind |-> "initiative", skill |-> <<>>]
    ELSE IF FirstSave(content) # 0
    THEN [kind |-> "save", skill |-> saves[FirstSave(content)]]
    ELSE IF FirstSkill(content) # 0
    THEN [kind |-> "check", skill |-> skill_list[FirstSkill(content)]]
    ELSE IF \/ In(Phrase_attack_roll, content)
            \/ In(Phrase_make_an_attack, content)
            \/ In(Phrase_please_roll_attack, content)
    THEN [kind |-> "attack", skill |-> <<>>]
    ELSE [kind |-> "none", skill |-> <<>>]

\* the kind and skill one assistant turn of lower-cased content is classified as, by
\* the tests of the loop body in their order; kind "none" lets the scan go on
ClassifyTurn(content) ==
    IF In(Phrase_initiative, content) \/ In(Phrase_roll_initiative, content)
    THEN [kind |-> "initiative", skill |-> <<>>]
    ELSE IF FirstSkill(content) # 0
    THEN [kind |-> "check", skill |-> skill_list[FirstSkill(content)]]
    ELSE IF FirstSave(content) # 0
    THEN [kind |-> "save", skill |-> saves[FirstSave(content)]]
    ELSE IF \/ In(Phrase_attack_roll, content)
            \/ In(Phrase_make_an_attack, content)
            \/ In(Phrase_please_roll_attack, content)
    THEN [kind |-> "attack", skill |-> <<>>]
    ELSE [kind |-> "none", skill |-> <<>>]

\* what one pass of the loop body reads from an assistant turn
TurnCues(content) ==
    LET c == lower(content)
    IN  [dc |-> Mention("dc", c), ac |-> Mention("ac", c),
         kind |-> ClassifyTurn(c).kind, skill |-> ClassifyTurn(c).skill]

\* str() of a number n >= 0, and of None
RECURSIVE str(_)
str(n) ==
    IF n = Null THEN <<"N", "o", "n", "e">>
    ELSE IF n < 10 THEN <<Digits[n + 1]>>
    ELSE str(n \div 10) \o <<Digits[(n % 10) + 1]>>

UpperOf ==
    [c \in {LowerAlphabet[i] : i \in 1..26} |->
        UpperAlphabet[CHOOSE i \in 1..26 : LowerAlphabet[i] = c]]

\* str.title(): a letter that follows no letter is upper-cased, the others lower-cased
title(s) ==
    [i \in 1..Len(s) |->
        IF s[i] \in LetterChars /\ (i = 1 \/ s[i - 1] \notin LetterChars)
        THEN (IF s[i] \in DOMAIN UpperOf THEN UpperOf[s[i]] ELSE s[i])
        ELSE LowerChar(s[i])]

\* the DCs an assistant turn that asks for one skill check states
CheckDCs == {10, 14}

\* an assistant turn that asks for a check of a skill against a DC
CheckRequest(skill, dc) ==
    <<"M", "a", "k", "e", " ", "a", " ">> \o title(skill) \o <<" ", "c", "h", "e", "c", "k", ",", " ", "D", "C", " ">> \o str(dc) \o <<".">>

CheckRequests == {CheckRequest(skill_list[i], dc) : i \in 1..Len(skill_list), dc \in CheckDCs}

\* an assistant turn that asks for a check of skill_list[i] or, later in the text, a
\* roll for skill_list[j]
PairRequest(i, j) ==
    <<"M", "a", "k", "e", " ", "a", " ">> \o title(skill_list[i]) \o <<" ", "c", "h", "e", "c", "k", " ", "o", "r", " ", "r", "o", "l", "l", " ", "f",
      "o", "r", " ">> \o skill_list[j] \o <<".">>

PairRequests ==
    {PairRequest(i, j) : i, j \in 1..Len(skill_list)} \ {PairRequest(i, i) : i \in 1..Len(skill_list)}

\* what the assistant said in the turns of the history
AssistantContents ==
    { <<"M", "a", "k", "e", " ", "a", " ", "S", "t", "e", "a", "l", "t", "h", " ", "c",
        "h", "e", "c", "k", ",", " ", "D", "C", " ", "1", "4", ".">>,
      <<"R", "o", "l", "l", " ", "i", "n", "i", "t", "i", "a", "t", "i", "v", "e", ",",
        " ", "t", "h", "e", "n", " ", "m", "a", "k", "e", " ", "a", " ", "s", "t", "e",
        "a", "l", "t", "h", " ", "c", "h", "e", "c", "k", " ", "(", "D", "C", " ", "1",
        "1", ")", ".">>,
      <<"M", "a", "k", "e", " ", "a", "n", " ", "a", "t", "t", "a", "c", "k", " ", "r",
        "o", "l", "l", ".">>,
      <<"M", "a", "k", "e", " ", "a", " ", "D", "e", "x", "t", "e", "r", "i", "t", "y",
        " ", "s", "a", "v", "i", "n", "g", " ", "t", "h", "r", "o", "w", " ", "o", "r",
        " ", "a", "n", " ", "a", "t", "t", "a", "c", "k", " ", "r", "o", "l", "l", ".">>,
      <<"T", "h", "e", " ", "g", "u", "a", "r", "d", " ", "h", "a", "s", " ", "A", "C",
        " ", "1", "2", ",", " ", "t", "h", "e", " ", "l", "o", "c", "k", " ", "i", "s",
        " ", "D", "C", " ", "1", "0", ".">>,
      <<"M", "a", "k", "e", " ", "a", "n", " ", "a", "t", "h", "l", "e", "t", "i", "c",
        "s", " ", "c", "h", "e", "c", "k", ",", " ", "a", " ", "w", "i", "s", "d", "o",
        "m", " ", "s", "a", "v", "i", "n", "g", " ", "t", "h", "r", "o", "w", " ", "o",
        "r", " ", "r", "o", "l", "l", " ", "f", "o", "r", " ", "p", "e", "r", "c", "e",
        "p", "t", "i", "o", "n", ".">> }

\* what the player said in the turns of the history
PlayerContents ==
    { <<"I", " ", "r", "o", "l", "l", "e", "d", " ", "1", "6", " ", "f", "o", "r", " ",
        "m", "y", " ", "s", "t", "e", "a", "l", "t", "h", " ", "c", "h", "e", "c", "k",
        " ", "a", "g", "a", "i", "n", "s", "t", " ", "D", "C", " ", "5", ",", " ", "A",
        "C", " ", "5", ".", " ", "R", "o", "l", "l", " ", "i", "n", "i", "t", "i", "a",
        "t", "i", "v", "e", "!">> }

\* the turns a history is made of
TurnChoices ==
    [role : {"assistant"}, content : AssistantContents]
        \cup [role : {"user"}, content : PlayerContents]

\* TurnCues of each content of a turn
CuesOf ==
    [c \in AssistantContents \cup PlayerContents \cup CheckRequests |->
        TurnCues(c)]

\* the cues of a content, read from CuesOf where it holds them
Cues(content) == IF content \in DOMAIN CuesOf THEN CuesOf[content] ELSE TurnCues(content)

\* the defaults of the targets: DC of a check, DC of a save, AC of an attack
DefaultCheckDC == 12

DefaultSaveDC == 13

DefaultAttackAC == 13

\* an Optional[bool] that is not None
Bool(b) == IF b THEN "True" ELSE "False"

\* variant of ScannedTurns: reversed(history), the whole list instead of its last 8 turns
ScannedTurns_WholeHistory(hist) == [i \in 1..Len(hist) |-> hist[Len(hist) + 1 - i]]

\* reversed(s)
reversed(s) == [i \in 1..Len(s) |-> s[Len(s) + 1 - i]]

\* history[-n:]
LastTurns(hist, n) == IF Len(hist) > n THEN SubSeq(hist, Len(hist) - n + 1, Len(hist)) ELSE hist

\* variant of ScannedTurns: every turn is read as a turn of the assistant
ScannedTurns_EveryRole(hist) ==
    [i \in 1..Len(LastTurns(hist, ScanWindow)) |->
        [role |-> "assistant",
         content |-> LastTurns(hist, ScanWindow)[Len(LastTurns(hist, ScanWindow)) + 1 - i].content]]

\* reversed(history[-8:])
ScannedTurns(hist) == reversed(LastTurns(hist, ScanWindow))

RECURSIVE ScanFrom(_, _, _, _)

\* variant of AfterTurn: the kind is kept without the skill or ability found with it
AfterTurn_NoSkill(turns, k, cues, dc, ac) ==
    IF cues.kind # "none"
    THEN [kind |-> cues.kind, skill |-> <<>>, dc |-> dc, ac |-> ac]
    ELSE ScanFrom(turns, k + 1, dc, ac)

\* the end of the loop body for an assistant turn: with the targets dc and ac as they are
\* after the turn, the loop breaks when the turn yields a kind and goes on otherwise
AfterTurn(turns, k, cues, dc, ac) ==
    IF cues.kind # "none"
    THEN [kind |-> cues.kind, skill |-> cues.skill, dc |-> dc, ac |-> ac]
    ELSE ScanFrom(turns, k + 1, dc, ac)

\* variant of ScanTurn: a DC or an AC found in a more recent turn is kept
ScanTurn_KeepFirst(turns, k, cues, dc, ac) ==
    AfterTurn(turns, k, cues,
              IF dc # Null THEN dc ELSE cues.dc,
              IF ac # Null THEN ac ELSE cues.ac)

\* the loop body for an assistant turn with cues: a DC or an AC it mentions overwrites
\* the one found so far
ScanTurn(turns, k, cues, dc, ac) ==
    AfterTurn(turns, k, cues,
              IF cues.dc # Null THEN cues.dc ELSE dc,
              IF cues.ac # Null THEN cues.ac ELSE ac)

\* the for loop over the reversed turns from index k on, with the targets found so far
ScanFrom(turns, k, dc, ac) ==
    IF k > Len(turns) THEN [kind |-> "none", skill |-> <<>>, dc |-> dc, ac |-> ac]
    ELSE IF turns[k].role # "assistant" THEN ScanFrom(turns, k + 1, dc, ac)
    ELSE ScanTurn(turns, k, Cues(turns[k].content), dc, ac)

\* last_kind, last_skill, last_dc, last_ac after the loop
ScanHistory(hist) == ScanFrom(ScannedTurns(hist), 1, Null, Null)

\* variant of DefaultTargets: no default is injected
DefaultTargets_NoDefaults(c) == c

\* variant of DefaultTargets: the default 12 of a check is used for a save and an attack as well
DefaultTargets_OneDefault(c) ==
    [c EXCEPT !.dc = IF c.kind \in {"check", "save"} /\ c.dc = Null THEN DefaultCheckDC ELSE c.dc,
              !.ac = IF c.kind = "attack" /\ c.ac = Null THEN DefaultCheckDC ELSE c.ac]

\* "Default targets if not found"
DefaultTargets(c) ==
    [c EXCEPT !.dc = IF c.kind = "check" /\ c.dc = Null THEN DefaultCheckDC
                     ELSE IF c.kind = "save" /\ c.dc = Null THEN DefaultSaveDC
                     ELSE c.dc,
              !.ac = IF c.kind = "attack" /\ c.ac = Null THEN DefaultAttackAC ELSE c.ac]

Text_your == <<"Y", "o", "u", "r", " ">>

Text_saving == <<"s", "a", "v", "i", "n", "g">>

Text_ability == <<"a", "b", "i", "l", "i", "t", "y">>

\* variant of outcome_line: every kind gets the line of the unknown kind
outcome_line_TotalOnly(kind, skill, dc, ac, total) ==
    <<"R", "o", "l", "l", " ", "t", "o", "t", "a", "l", " ", "r", "e", "c", "o", "r",
      "d", "e", "d", ":", " ">> \o str(total) \o <<".">>

outcome_line(kind, skill, dc, ac, total) ==
    IF kind = "initiative" THEN <<"I", "n", "i", "t", "i", "a", "t", "i", "v", "e", " ", "n", "o", "t", "e",
           "d", ":", " ">> \o str(total) \o <<".">>
    ELSE IF kind = "attack"
         THEN IF ac = Null THEN <<"Y", "o", "u", "r", " ", "a", "t", "t", "a", "c", "k", " ", "r", "o", "l",
           "l", " ", "i", "s", " ">> \o str(total) \o <<".">>
              ELSE <<"Y", "o", "u", "r", " ", "a", "t", "t", "a", "c", "k", " ", "r", "o", "l",
           "l", " ", "i", "s", " ">> \o str(total) \o <<" ">>
                   \o (IF total >= ac THEN <<"(", "h", "i", "t", ")">> ELSE <<"(", "m", "i", "s", "s", ")">>) \o <<".">>
    ELSE IF kind = "save"
         THEN IF dc = Null THEN <<"Y", "o", "u", "r", " ", "s", "a", "v", "i", "n", "g", " ", "t", "h", "r",
           "o", "w", " ", "t", "o", "t", "a", "l", " ", "i", "s", " ">> \o str(total) \o <<".">>
              ELSE Text_your \o (IF skill # <<>> THEN skill ELSE Text_saving)
                   \o <<" ", "t", "h", "r", "o", "w", " ", "i", "s", " ">> \o str(total) \o <<" ">>
                   \o (IF total >= dc THEN <<"(", "s", "u", "c", "c", "e", "s", "s", ")">> ELSE <<"(", "f", "a", "i", "l", "u", "r", "e", ")">>) \o <<".">>
    ELSE IF kind = "check"
         THEN IF dc = Null
              THEN Text_your \o (IF skill # <<>> THEN skill ELSE Text_ability)
                   \o <<" ", "c", "h", "e", "c", "k", " ", "t", "o", "t", "a", "l", "s", " ">> \o str(total) \o <<".">>
              ELSE Text_your \o (IF skill # <<>> THEN skill ELSE Text_ability)
                   \o <<" ", "c", "h", "e", "c", "k", " ", "i", "s", " ">> \o str(total) \o <<" ">>
                   \o (IF total >= dc THEN <<"(", "s", "u", "c", "c", "e", "s", "s", ")">> ELSE <<"(", "f", "a", "i", "l", "u", "r", "e", ")">>) \o <<".">>
    ELSE <<"R", "o", "l", "l", " ", "t", "o", "t", "a", "l", " ", "r", "e", "c", "o",
           "r", "d", "e", "d", ":", " ">> \o str(total) \o <<".">>

\* variant of SuccessFlag: the total has to exceed the target
SuccessFlag_Strict(kind, dc, ac, total) ==
    IF kind = "attack" /\ ac # Null THEN Bool(total > ac)
    ELSE IF kind \in {"check", "save"} /\ dc # Null THEN Bool(total > dc)
    ELSE "None"

\* "Determine success for options where applicable"
SuccessFlag(kind, dc, ac, total) ==
    IF kind = "attack" /\ ac # Null THEN Bool(total >= ac)
    ELSE IF kind \in {"check", "save"} /\ dc # Null THEN Bool(total >= dc)
    ELSE "None"

(***************************************************************************)
(* respond.build_lettered_options                                          *)
(* (the character U+2011 of the source is written "-")                     *)
(***************************************************************************)
Menu_social_success ==
    << <<"A", ".", " ", "*", "*", "S", "l", "i", "p", " ", "a", "w", "a", "y", " ", "u",
         "n", "d", "e", "r", " ", "t", "h", "e", " ", "d", "i", "s", "t", "r", "a", "c",
         "t", "i", "o", "n", "*", "*", ",", " ", "m", "o", "v", "i", "n", "g", " ", "q",
         "u", "i", "c", "k", "l", "y", " ", "w", "h", "i", "l", "e", " ", "t", "h", "e",
         "i", "r", " ", "a", "t", "t", "e", "n", "t", "i", "o", "n", " ", "i", "s", " ",
         "e", "l", "s", "e", "w", "h", "e", "r", "e", ".">>,
       <<"B", ".", " ", "*", "*", "R", "e", "p", "o", "s", "i", "t", "i", "o", "n", " ",
         "f", "o", "r", " ", "a", "d", "v", "a", "n", "t", "a", "g", "e", "*", "*", ",",
         " ", "c", "i", "r", "c", "l", "i", "n", "g", " ", "b", "e", "h", "i", "n", "d",
         " ", "c", "o", "v", "e", "r", " ", "t", "o", " ", "s", "e", "t", " ", "u", "p",
         " ", "y", "o", "u", "r", " ", "n", "e", "x", "t", " ", "m", "o", "v", "e", ".">>,
       <<"C", ".", " ", "*", "*", "P", "r", "e", "s", "s", " ", "t", "h", "e", " ", "b",
         "l", "u", "f", "f", "*", "*", ",", " ", "d", "o", "u", "b", "l", "i", "n", "g",
         " ", "d", "o", "w", "n", " ", "t", "o", " ", "s", "t", "e", "e", "r", " ", "t",
         "h", "e", "m", " ", "w", "h", "e", "r", "e", " ", "y", "o", "u", " ", "w", "a",
         "n", "t", ".">> >>

Menu_social_failure ==
    << <<"A", ".", " ", "*", "*", "D", "u", "c", "k", " ", "i", "n", "t", "o", " ", "c",
         "o", "v", "e", "r", "*", "*", ",", " ", "u", "s", "i", "n", "g", " ", "s", "h",
         "a", "d", "o", "w", "s", " ", "a", "n", "d", " ", "o", "b", "s", "t", "a", "c",
         "l", "e", "s", " ", "t", "o", " ", "b", "r", "e", "a", "k", " ", "l", "i", "n",
         "e", " ", "o", "f", " ", "s", "i", "g", "h", "t", ".">>,
       <<"B", ".", " ", "*", "*", "C", "h", "a", "n", "g", "e", " ", "t", "a", "c", "t",
         "i", "c", "s", "*", "*", ",", " ", "s", "h", "i", "f", "t", " ", "t", "o", " ",
         "s", "t", "e", "a", "l", "t", "h", " ", "o", "r", " ", "s", "p", "e", "e", "d",
         " ", "i", "n", "s", "t", "e", "a", "d", " ", "o", "f", " ", "m", "i", "s", "d",
         "i", "r", "e", "c", "t", "i", "o", "n", ".">>,
       <<"C", ".", " ", "*", "*", "C", "r", "e", "a", "t", "e", " ", "a", " ", "l", "o",
         "u", "d", "e", "r", " ", "d", "i", "v", "e", "r", "s", "i", "o", "n", "*", "*",
         ",", " ", "t", "h", "r", "o", "w", " ", "d", "e", "b", "r", "i", "s", " ", "o",
         "r", " ", "s", "h", "o", "u", "t", " ", "f", "r", "o", "m", " ", "a", "n", "o",
         "t", "h", "e", "r", " ", "a", "n", "g", "l", "e", ".">> >>

Menu_stealth_success ==
    << <<"A", ".", " ", "*", "*", "S", "h", "a", "d", "o", "w", " ", "t", "h", "e", " ",
         "p", "u", "r", "s", "u", "e", "r", "s", "*", "*", ",", " ", "t", "a", "i", "l",
         "i", "n", "g", " ", "t", "h", "e", "m", " ", "t", "o", " ", "l", "e", "a", "r",
         "n", " ", "t", "h", "e", "i", "r", " ", "r", "o", "u", "t", "e", ".">>,
       <<"B", ".", " ", "*", "*", "S", "l", "i", "p", " ", "p", "a", "s", "t", "*", "*",
         ",", " ", "b", "y", "p", "a", "s", "s", "i", "n", "g", " ", "t", "h", "e", " ",
         "d", "a", "n", "g", "e", "r", " ", "t", "o", " ", "r", "e", "a", "c", "h", " ",
         "y", "o", "u", "r", " ", "o", "b", "j", "e", "c", "t", "i", "v", "e", ".">>,
       <<"C", ".", " ", "*", "*", "S", "e", "t", " ", "a", "n", " ", "a", "m", "b", "u",
         "s", "h", "*", "*", ",", " ", "c", "h", "o", "o", "s", "e", " ", "a", " ", "c",
         "h", "o", "k", "e", "p", "o", "i", "n", "t", " ", "a", "n", "d", " ", "p", "r",
         "e", "p", "a", "r", "e", ".">> >>

Menu_stealth_failure ==
    << <<"A", ".", " ", "*", "*", "F", "r", "e", "e", "z", "e", " ", "a", "n", "d", " ",
         "c", "o", "n", "c", "e", "a", "l", "*", "*", ",", " ", "m", "i", "n", "i", "m",
         "i", "z", "e", " ", "m", "o", "v", "e", "m", "e", "n", "t", " ", "a", "n", "d",
         " ", "s", "o", "u", "n", "d", ".">>,
       <<"B", ".", " ", "*", "*", "B", "r", "e", "a", "k", " ", "l", "i", "n", "e", " ",
         "o", "f", " ", "s", "i", "g", "h", "t", "*", "*", ",", " ", "d", "a", "s", "h",
         " ", "t", "o", " ", "s", "t", "u", "r", "d", "i", "e", "r", " ", "c", "o", "v",
         "e", "r", " ", "i", "m", "m", "e", "d", "i", "a", "t", "e", "l", "y", ".">>,
       <<"C", ".", " ", "*", "*", "C", "r", "e", "a", "t", "e", " ", "a", " ", "c", "o",
         "v", "e", "r", " ", "n", "o", "i", "s", "e", "*", "*", ",", " ", "t", "o", "s",
         "s", " ", "s", "o", "m", "e", "t", "h", "i", "n", "g", " ", "t", "o", " ", "m",
         "a", "s", "k", " ", "y", "o", "u", "r", " ", "m", "o", "v", "e", "m", "e", "n",
         "t", ".">> >>

Menu_physical_success ==
    << <<"A", ".", " ", "*", "*", "S", "c", "a", "l", "e", " ", "t", "h", "e", " ", "t",
         "e", "r", "r", "a", "i", "n", "*", "*", ",", " ", "g", "a", "i", "n", "i", "n",
         "g", " ", "a", " ", "h", "i", "g", "h", " ", "v", "a", "n", "t", "a", "g", "e",
         " ", "t", "o", " ", "e", "s", "c", "a", "p", "e", " ", "o", "r", " ", "o", "b",
         "s", "e", "r", "v", "e", ".">>,
       <<"B", ".", " ", "*", "*", "D", "a", "s", "h", " ", "t", "h", "r", "o", "u", "g",
         "h", " ", "o", "b", "s", "t", "a", "c", "l", "e", "s", "*", "*", ",", " ", "u",
         "s", "i", "n", "g", " ", "m", "o", "m", "e", "n", "t", "u", "m", " ", "t", "o",
         " ", "w", "i", "d", "e", "n", " ", "t", "h", "e", " ", "g", "a", "p", ".">>,
       <<"C", ".", " ", "*", "*", "S", "h", "o", "v", "e", " ", "o", "r", " ", "t", "r",
         "i", "p", "*", "*", ",", " ", "h", "i", "n", "d", "e", "r", " ", "a", " ", "p",
         "u", "r", "s", "u", "e", "r", " ", "t", "o", " ", "b", "u", "y", " ", "t", "i",
         "m", "e", ".">> >>

Menu_physical_failure ==
    << <<"A", ".", " ", "*", "*", "R", "e", "t", "r", "e", "a", "t", " ", "t", "o", " ",
         "s", "a", "f", "e", "r", " ", "f", "o", "o", "t", "i", "n", "g", "*", "*", ",",
         " ", "t", "h", "e", "n", " ", "t", "r", "y", " ", "a", " ", "d", "i", "f", "f",
         "e", "r", "e", "n", "t", " ", "a", "p", "p", "r", "o", "a", "c", "h", ".">>,
       <<"B", ".", " ", "*", "*", "U", "s", "e", " ", "t", "h", "e", " ", "e", "n", "v",
         "i", "r", "o", "n", "m", "e", "n", "t", "*", "*", ",", " ", "t", "o", "p", "p",
         "l", "e", " ", "a", " ", "c", "r", "a", "t", "e", " ", "o", "r", " ", "d", "o",
         "o", "r", " ", "t", "o", " ", "b", "l", "o", "c", "k", " ", "p", "u", "r", "s",
         "u", "i", "t", ".">>,
       <<"C", ".", " ", "*", "*", "S", "w", "i", "t", "c", "h", " ", "t", "a", "c", "t",
         "i", "c", "s", "*", "*", ",", " ", "a", "v", "o", "i", "d", " ", "r", "i", "s",
         "k", "y", " ", "s", "t", "u", "n", "t", "s", " ", "a", "n", "d", " ", "m", "o",
         "v", "e", " ", "c", "a", "u", "t", "i", "o", "u", "s", "l", "y", ".">> >>

Menu_check_success ==
    << <<"A", ".", " ", "*", "*", "C", "a", "p", "i", "t", "a", "l", "i", "z", "e", " ",
         "i", "m", "m", "e", "d", "i", "a", "t", "e", "l", "y", "*", "*", ",", " ", "a",
         "c", "t", " ", "b", "e", "f", "o", "r", "e", " ", "t", "h", "e", " ", "w", "i",
         "n", "d", "o", "w", " ", "c", "l", "o", "s", "e", "s", ".">>,
       <<"B", ".", " ", "*", "*", "G", "a", "t", "h", "e", "r", " ", "m", "o", "r", "e",
         " ", "i", "n", "f", "o", "r", "m", "a", "t", "i", "o", "n", "*", "*", ",", " ",
         "p", "r", "o", "b", "e", " ", "f", "o", "r", " ", "e", "x", "t", "r", "a", " ",
         "c", "l", "u", "e", "s", ".">>,
       <<"C", ".", " ", "*", "*", "S", "e", "t", " ", "u", "p", " ", "a", "l", "l", "i",
         "e", "s", "*", "*", ",", " ", "c", "o", "o", "r", "d", "i", "n", "a", "t", "e",
         " ", "f", "o", "r", " ", "a", " ", "s", "t", "r", "o", "n", "g", "e", "r", " ",
         "f", "o", "l", "l", "o", "w", "-", "t", "h", "r", "o", "u", "g", "h", ".">> >>

Menu_check_failure ==
    << <<"A", ".", " ", "*", "*", "T", "r", "y", " ", "a", " ", "d", "i", "f", "f", "e",
         "r", "e", "n", "t", " ", "a", "n", "g", "l", "e", "*", "*", ",", " ", "a", "p",
         "p", "l", "y", " ", "a", "n", "o", "t", "h", "e", "r", " ", "s", "k", "i", "l",
         "l", " ", "o", "r", " ", "a", "p", "p", "r", "o", "a", "c", "h", ".">>,
       <<"B", ".", " ", "*", "*", "L", "e", "v", "e", "r", "a", "g", "e", " ", "t", "h",
         "e", " ", "e", "n", "v", "i", "r", "o", "n", "m", "e", "n", "t", "*", "*", ",",
         " ", "f", "i", "n", "d", " ", "c", "o", "v", "e", "r", " ", "o", "r", " ", "t",
         "o", "o", "l", "s", " ", "n", "e", "a", "r", "b", "y", ".">>,
       <<"C", ".", " ", "*", "*", "W", "i", "t", "h", "d", "r", "a", "w", " ", "b", "r",
         "i", "e", "f", "l", "y", "*", "*", ",", " ", "r", "e", "a", "s", "s", "e", "s",
         "s", " ", "a", "n", "d", " ", "p", "l", "a", "n", " ", "y", "o", "u", "r", " ",
         "n", "e", "x", "t", " ", "m", "o", "v", "e", ".">> >>

Menu_attack_success ==
    << <<"A", ".", " ", "*", "*", "P", "r", "e", "s", "s", " ", "t", "h", "e", " ", "a",
         "t", "t", "a", "c", "k", "*", "*", ",", " ", "k", "e", "e", "p", " ", "t", "h",
         "e", " ", "p", "r", "e", "s", "s", "u", "r", "e", " ", "o", "n", " ", "y", "o",
         "u", "r", " ", "t", "a", "r", "g", "e", "t", ".">>,
       <<"B", ".", " ", "*", "*", "G", "r", "a", "p", "p", "l", "e", " ", "o", "r", " ",
         "s", "h", "o", "v", "e", "*", "*", ",", " ", "c", "o", "n", "t", "r", "o", "l",
         " ", "t", "h", "e", "i", "r", " ", "m", "o", "v", "e", "m", "e", "n", "t", " ",
         "t", "o", " ", "g", "a", "i", "n", " ", "a", "d", "v", "a", "n", "t", "a", "g",
         "e", ".">>,
       <<"C", ".", " ", "*", "*", "W", "i", "t", "h", "d", "r", "a", "w", " ", "t", "o",
         " ", "c", "o", "v", "e", "r", "*", "*", ",", " ", "r", "e", "p", "o", "s", "i",
         "t", "i", "o", "n", " ", "b", "e", "f", "o", "r", "e", " ", "t", "h", "e", "i",
         "r", " ", "c", "o", "u", "n", "t", "e", "r", "a", "t", "t", "a", "c", "k", ".">> >>

Menu_attack_failure ==
    << <<"A", ".", " ", "*", "*", "F", "e", "i", "n", "t", " ", "t", "h", "e", "n", " ",
         "s", "t", "r", "i", "k", "e", "*", "*", ",", " ", "c", "h", "a", "n", "g", "e",
         " ", "t", "i", "m", "i", "n", "g", " ", "t", "o", " ", "t", "h", "r", "o", "w",
         " ", "t", "h", "e", "m", " ", "o", "f", "f", ".">>,
       <<"B", ".", " ", "*", "*", "D", "i", "s", "e", "n", "g", "a", "g", "e", " ", "a",
         "n", "d", " ", "r", "e", "p", "o", "s", "i", "t", "i", "o", "n", "*", "*", ",",
         " ", "s", "e", "t", " ", "u", "p", " ", "a", " ", "b", "e", "t", "t", "e", "r",
         " ", "l", "i", "n", "e", " ", "o", "r", " ", "r", "a", "n", "g", "e", ".">>,
       <<"C", ".", " ", "*", "*", "S", "w", "i", "t", "c", "h", " ", "t", "a", "c", "t",
         "i", "c", "s", "*", "*", ",", " ", "t", "r", "y", " ", "a", " ", "d", "i", "f",
         "f", "e", "r", "e", "n", "t", " ", "t", "a", "r", "g", "e", "t", " ", "o", "r",
         " ", "a", "p", "p", "r", "o", "a", "c", "h", ".">> >>

Menu_save_success ==
    << <<"A", ".", " ", "*", "*", "P", "u", "s", "h", " ", "t", "h", "e", " ", "a", "d",
         "v", "a", "n", "t", "a", "g", "e", "*", "*", ",", " ", "a", "d", "v", "a", "n",
         "c", "e", " ", "w", "h", "i", "l", "e", " ", "t", "h", "e", " ", "d", "a", "n",
         "g", "e", "r", " ", "s", "u", "b", "s", "i", "d", "e", "s", ".">>,
       <<"B", ".", " ", "*", "*", "A", "i", "d", " ", "a", "n", " ", "a", "l", "l", "y",
         "*", "*", ",", " ", "h", "e", "l", "p", " ", "s", "o", "m", "e", "o", "n", "e",
         " ", "s", "t", "i", "l", "l", " ", "i", "n", " ", "p", "e", "r", "i", "l", ".">>,
       <<"C", ".", " ", "*", "*", "S", "e", "c", "u", "r", "e", " ", "a", " ", "s", "a",
         "f", "e", "r", " ", "p", "o", "s", "i", "t", "i", "o", "n", "*", "*", ",", " ",
         "r", "e", "d", "u", "c", "e", " ", "f", "u", "t", "u", "r", "e", " ", "r", "i",
         "s", "k", ".">> >>

Menu_save_failure ==
    << <<"A", ".", " ", "*", "*", "S", "e", "e", "k", " ", "c", "o", "v", "e", "r", " ",
         "i", "m", "m", "e", "d", "i", "a", "t", "e", "l", "y", "*", "*", ",", " ", "m",
         "i", "n", "i", "m", "i", "z", "e", " ", "o", "n", "g", "o", "i", "n", "g", " ",
         "e", "f", "f", "e", "c", "t", "s", ".">>,
       <<"B", ".", " ", "*", "*", "U", "s", "e", " ", "a", " ", "r", "e", "s", "o", "u",
         "r", "c", "e", "*", "*", ",", " ", "p", "o", "t", "i", "o", "n", " ", "o", "r",
         " ", "f", "e", "a", "t", "u", "r", "e", " ", "t", "o", " ", "m", "i", "t", "i",
         "g", "a", "t", "e", " ", "h", "a", "r", "m", ".">>,
       <<"C", ".", " ", "*", "*", "C", "a", "l", "l", " ", "f", "o", "r", " ", "a", "i",
         "d", "*", "*", ",", " ", "c", "o", "o", "r", "d", "i", "n", "a", "t", "e", " ",
         "w", "i", "t", "h", " ", "a", "l", "l", "i", "e", "s", ".">> >>

Menu_initiative ==
    << <<"A", ".", " ", "*", "*", "A", "c", "t", " ", "d", "e", "c", "i", "s", "i", "v",
         "e", "l", "y", "*", "*", ",", " ", "t", "a", "k", "e", " ", "t", "h", "e", " ",
         "f", "i", "r", "s", "t", " ", "a", "g", "g", "r", "e", "s", "s", "i", "v", "e",
         " ", "m", "o", "v", "e", ".">>,
       <<"B", ".", " ", "*", "*", "H", "o", "l", "d", " ", "a", "n", "d", " ", "o", "b",
         "s", "e", "r", "v", "e", "*", "*", ",", " ", "w", "a", "i", "t", " ", "f", "o",
         "r", " ", "a", "n", " ", "o", "p", "e", "n", "i", "n", "g", ".">>,
       <<"C", ".", " ", "*", "*", "R", "e", "p", "o", "s", "i", "t", "i", "o", "n", "*",
         "*", ",", " ", "m", "o", "v", "e", " ", "t", "o", " ", "a", "d", "v", "a", "n",
         "t", "a", "g", "e", "o", "u", "s", " ", "t", "e", "r", "r", "a", "i", "n", ".">> >>

Menu_exploration ==
    << <<"A", ".", " ", "*", "*", "A", "p", "p", "r", "o", "a", "c", "h", " ", "c", "a",
         "u", "t", "i", "o", "u", "s", "l", "y", "*", "*", ",", " ", "g", "a", "t", "h",
         "e", "r", " ", "m", "o", "r", "e", " ", "i", "n", "f", "o", "r", "m", "a", "t",
         "i", "o", "n", " ", "b", "e", "f", "o", "r", "e", " ", "a", "c", "t", "i", "n",
         "g", ".">>,
       <<"B", ".", " ", "*", "*", "C", "r", "e", "a", "t", "e", " ", "a", " ", "d", "i",
         "s", "t", "r", "a", "c", "t", "i", "o", "n", "*", "*", ",", " ", "c", "h", "a",
         "n", "g", "e", " ", "t", "h", "e", " ", "s", "i", "t", "u", "a", "t", "i", "o",
         "n", " ", "i", "n", " ", "y", "o", "u", "r", " ", "f", "a", "v", "o", "r", ".">>,
       <<"C", ".", " ", "*", "*", "W", "i", "t", "h", "d", "r", "a", "w", " ", "a", "n",
         "d", " ", "r", "e", "a", "s", "s", "e", "s", "s", "*", "*", ",", " ", "p", "l",
         "a", "n", " ", "a", " ", "b", "e", "t", "t", "e", "r", " ", "a", "p", "p", "r",
         "o", "a", "c", "h", ".">> >>

Skill_deception == <<"d", "e", "c", "e", "p", "t", "i", "o", "n">>

Skill_persuasion == <<"p", "e", "r", "s", "u", "a", "s", "i", "o", "n">>

Skill_intimidation == <<"i", "n", "t", "i", "m", "i", "d", "a", "t", "i", "o", "n">>

Skill_stealth == <<"s", "t", "e", "a", "l", "t", "h">>

Skill_athletics == <<"a", "t", "h", "l", "e", "t", "i", "c", "s">>

Skill_acrobatics == <<"a", "c", "r", "o", "b", "a", "t", "i", "c", "s">>

\* the list options of build_lettered_options
\* variant of OptionMenu: a kind that is none of check, attack, save and initiative
\* gets no options
OptionMenu_NoCatchAll(kind, skill, success) ==
    IF kind \in {"check", "attack", "save", "initiative"}
    THEN (IF kind = "initiative" THEN Menu_initiative
          ELSE IF kind = "attack" THEN Menu_attack_success
          ELSE IF kind = "save" THEN Menu_save_success
          ELSE Menu_check_success)
    ELSE <<>>

OptionMenu(kind, skill, success) ==
    LET sk == lower(skill)
    IN  IF kind = "check"
        THEN IF sk \in {Skill_deception, Skill_persuasion, Skill_intimidation}
             THEN IF success = "True" THEN Menu_social_success ELSE Menu_social_failure
             ELSE IF sk = Skill_stealth
             THEN IF success = "True" THEN Menu_stealth_success ELSE Menu_stealth_failure
             ELSE IF sk \in {Skill_athletics, Skill_acrobatics}
             THEN IF success = "True" THEN Menu_physical_success ELSE Menu_physical_failure
             ELSE IF success = "True" THEN Menu_check_success ELSE Menu_check_failure
        ELSE IF kind = "attack"
        THEN IF success = "True" THEN Menu_attack_success ELSE Menu_attack_failure
        ELSE IF kind = "save"
        THEN IF success = "True" THEN Menu_save_success ELSE Menu_save_failure
        ELSE IF kind = "initiative" THEN Menu_initiative
        ELSE Menu_exploration

\* "\n" + "\n".join(options)
build_lettered_options(kind, skill, success) ==
    <<"\n">> \o join(<<"\n">>, OptionMenu(kind, skill, success))

Text_what_next == <<" ", "W", "h", "a", "t", " ", "d", "o", " ", "y", "o", "u", " ", "d", "o", " ",
      "n", "e", "x", "t", "?">>

(***************************************************************************)
(* respond.heuristic_response and the copy of its classifier in the model  *)
(* path                                                                    *)
(***************************************************************************)
\* skills
skills == skill_list

\* synonyms
synonyms ==
    << [skill |-> <<"s", "t", "e", "a", "l", "t", "h">>,
        words |-> << <<"s", "n", "e", "a", "k">>,
                           <<"s", "n", "e", "a", "k", "i", "n", "g">>,
                           <<"s", "n", "e", "a", "k", "i", "l", "y">>,
                           <<"q", "u", "i", "e", "t">>,
                           <<"q", "u", "i", "e", "t", "l", "y">>,
                           <<"h", "i", "d", "e">>,
                           <<"h", "i", "d", "d", "e", "n">>,
                           <<"s", "h", "a", "d", "o", "w", "s">>,
                           <<"c", "r", "e", "e", "p">>,
                           <<"s", "i", "l", "e", "n", "t", "l", "y">>,
                           <<"t", "i", "p", "t", "o", "e">> >>],
       [skill |-> <<"d", "e", "c", "e", "p", "t", "i", "o", "n">>,
        words |-> << <<"d", "i", "v", "e", "r", "s", "i", "o", "n">>,
                           <<"d", "i", "s", "t", "r", "a", "c", "t">>,
                           <<"d", "i", "s", "t", "r", "a", "c", "t", "i", "n", "g">>,
                           <<"b", "l", "u", "f", "f">>,
                           <<"m", "i", "s", "l", "e", "a", "d">>,
                           <<"d", "e", "c", "o", "y">> >>],
       [skill |-> <<"a", "t", "h", "l", "e", "t", "i", "c", "s">>,
        words |-> << <<"t", "h", "r", "o", "w">>,
                           <<"t", "o", "s", "s">>,
                           <<"h", "u", "r", "l">>,
                           <<"s", "h", "o", "v", "e">>,
                           <<"l", "i", "f", "t">>,
                           <<"c", "l", "i", "m", "b">>,
                           <<"j", "u", "m", "p">>,
                           <<"g", "r", "a", "p", "p", "l", "e">> >>],
       [skill |-> <<"a", "c", "r", "o", "b", "a", "t", "i", "c", "s">>,
        words |-> << <<"t", "u", "m", "b", "l", "e">>,
                           <<"f", "l", "i", "p">>,
                           <<"b", "a", "l", "a", "n", "c", "e">>,
                           <<"d", "o", "d", "g", "e">>,
                           <<"r", "o", "l", "l", " ", "a", "w", "a", "y">> >>],
       [skill |-> <<"p", "e", "r", "s", "u", "a", "s", "i", "o", "n">>,
        words |-> << <<"p", "e", "r", "s", "u", "a", "d", "e">>,
                           <<"c", "o", "n", "v", "i", "n", "c", "e">>,
                           <<"a", "p", "p", "e", "a", "l">>,
                           <<"n", "e", "g", "o", "t", "i", "a", "t", "e">>,
                           <<"b", "a", "r", "g", "a", "i", "n">>,
                           <<"c", "h", "a", "r", "m">> >>],
       [skill |-> <<"i", "n", "t", "i", "m", "i", "d", "a", "t", "i", "o", "n">>,
        words |-> << <<"i", "n", "t", "i", "m", "i", "d", "a", "t", "e">>,
                           <<"t", "h", "r", "e", "a", "t", "e", "n">>,
                           <<"m", "e", "n", "a", "c", "e">>,
                           <<"c", "o", "e", "r", "c", "e">>,
                           <<"s", "c", "a", "r", "e">> >>],
       [skill |-> <<"i", "n", "v", "e", "s", "t", "i", "g", "a", "t", "i", "o", "n">>,
        words |-> << <<"s", "e", "a", "r", "c", "h">>,
                           <<"e", "x", "a", "m", "i", "n", "e">>,
                           <<"i", "n", "s", "p", "e", "c", "t">>,
                           <<"a", "n", "a", "l", "y", "z", "e">>,
                           <<"s", "t", "u", "d", "y">>,
                           <<"l", "o", "o", "k", " ", "o", "v", "e", "r">> >>],
       [skill |-> <<"p", "e", "r", "c", "e", "p", "t", "i", "o", "n">>,
        words |-> << <<"l", "o", "o", "k">>,
                           <<"l", "i", "s", "t", "e", "n">>,
                           <<"s", "c", "a", "n">>,
                           <<"s", "p", "o", "t">>,
                           <<"n", "o", "t", "i", "c", "e">>,
                           <<"o", "b", "s", "e", "r", "v", "e">>,
                           <<"h", "e", "a", "r">> >>],
       [skill |-> <<"s", "l", "e", "i", "g", "h", "t", " ", "o", "f", " ", "h", "a", "n",
                    "d">>,
        words |-> << <<"p", "i", "c", "k", "p", "o", "c", "k", "e", "t">>,
                           <<"p", "a", "l", "m">>,
                           <<"c", "o", "n", "c", "e", "a", "l">>,
                           <<"s", "n", "a", "t", "c", "h">>,
                           <<"n", "i", "m", "b", "l", "e", " ", "f", "i", "n", "g", "e", "r",
                             "s">> >>],
       [skill |-> <<"s", "u", "r", "v", "i", "v", "a", "l">>,
        words |-> << <<"t", "r", "a", "c", "k">>,
                           <<"f", "o", "r", "a", "g", "e">>,
                           <<"n", "a", "v", "i", "g", "a", "t", "e">>,
                           <<"t", "r", "a", "i", "l">> >>] >>

Word_initiative == <<"i", "n", "i", "t", "i", "a", "t", "i", "v", "e">>

Word_attack == <<"a", "t", "t", "a", "c", "k">>

Word_check == <<"c", "h", "e", "c", "k">>

Word_save == <<"s", "a", "v", "e">>

Purpose_roll_initiative == <<"R", "o", "l", "l", " ", "i", "n", "i", "t", "i", "a", "t", "i", "v", "e">>

Purpose_attack_roll == <<"A", "t", "t", "a", "c", "k", " ", "r", "o", "l", "l">>

Purpose_ability_check == <<"A", "b", "i", "l", "i", "t", "y", " ", "c", "h", "e", "c", "k">>

Purpose_saving_throw == <<"S", "a", "v", "i", "n", "g", " ", "t", "h", "r", "o", "w">>

\* RollRequest(type=..., formula=..., purpose=..., dc=..., ac=...)
RollRequest(type, formula, purpose, dc, ac) ==
    [type |-> type, formula |-> formula, purpose |-> purpose, dc |-> dc, ac |-> ac]

\* any(r.type == "check" for r in roll_requests)
HasCheck(reqs) == \E k \in 1..Len(reqs) : reqs[k].type = "check"

\* the first index of a for loop that breaks at its first hit, 0 when there is none
FirstOf(hits) == IF hits = {} THEN 0 ELSE Least(hits)

\* variant of DetectedSkill: the loop over synonyms does not break at its first hit
DetectedSkill_LastHit(m) ==
    LET hits == {k \in 1..Len(synonyms) :
                    \E w \in 1..Len(synonyms[k].words) : In(synonyms[k].words[w], m)}
    IN  IF hits = {} THEN 0 ELSE CHOOSE k \in hits : \A j \in hits : k >= j

\* detected_skill: the index in synonyms of the first skill one of whose words occurs
\* in m, 0 for None
DetectedSkill(m) ==
    FirstOf({k \in 1..Len(synonyms) :
                \E w \in 1..Len(synonyms[k].words) : In(synonyms[k].words[w], m)})

\* the index in skills of the first skill named in m, 0 if none is
LiteralSkill(m) ==
    FirstOf({k \in 1..Len(skills) : In(skills[k], m) \/ In(Phrase_roll_for \o skills[k], m)})

\* heuristic_response: "initiative" in m
InitiativeRequest(m) ==
    IF In(Word_initiative, m)
    THEN <<RollRequest("initiative", "1d20+2", Purpose_roll_initiative, Null, Null)>>
    ELSE <<>>

\* variant of AttackRequest: the attack request is put at the head of the list
AttackRequest_First(m, reqs) ==
    IF In(Word_attack, m)
    THEN <<RollRequest("attack", "1d20+5", Purpose_attack_roll, Null, 13)>> \o reqs
    ELSE reqs

\* heuristic_response: "attack" in m, after the requests reqs
AttackRequest(m, reqs) ==
    IF In(Word_attack, m)
    THEN Append(reqs, RollRequest("attack", "1d20+5", Purpose_attack_roll, Null, 13))
    ELSE reqs

\* heuristic_response: the loop over skills, k being the first skill named in m (0 for none)
LiteralCheckRequest(reqs, k, parsed_dc) ==
    IF k # 0
    THEN Append(reqs, RollRequest("check", "1d20+3", title(skills[k]) \o Phrase_check,
                                  parsed_dc, Null))
    ELSE reqs

\* variant of DetectedCheckRequest: the check is added whatever the list holds
DetectedCheckRequest_Always(reqs, k, parsed_dc) ==
    IF k # 0
    THEN Append(reqs, RollRequest("check", "1d20+3", title(synonyms[k].skill) \o Phrase_check,
                                  parsed_dc, Null))
    ELSE reqs

\* heuristic_response: detected_skill, k being its index in synonyms (0 for None)
DetectedCheckRequest(reqs, k, parsed_dc) ==
    IF k # 0 /\ ~HasCheck(reqs)
    THEN Append(reqs, RollRequest("check", "1d20+3", title(synonyms[k].skill) \o Phrase_check,
                                  parsed_dc, Null))
    ELSE reqs

\* heuristic_response: "check" in m
AbilityCheckRequest(m, reqs, parsed_dc) ==
    IF In(Word_check, m) /\ ~HasCheck(reqs)
    THEN Append(reqs, RollRequest("check", "1d20+3", Purpose_ability_check, parsed_dc, Null))
    ELSE reqs

\* variant of SaveRequest: the saving throw carries no dc
SaveRequest_NoDC(m, reqs, parsed_dc) ==
    IF In(Word_save, m)
    THEN Append(reqs, RollRequest("save", "1d20+2", Purpose_saving_throw, Null, Null))
    ELSE reqs

\* variant of SaveRequest: the saving throw is left out when the list holds a check
SaveRequest_UnlessCheck(m, reqs, parsed_dc) ==
    IF In(Word_save, m) /\ ~HasCheck(reqs)
    THEN Append(reqs, RollRequest("save", "1d20+2", Purpose_saving_throw, parsed_dc, Null))
    ELSE reqs

\* heuristic_response: "save" in m
SaveRequest(m, reqs, parsed_dc) ==
    IF In(Word_save, m)
    THEN Append(reqs, RollRequest("save", "1d20+2", Purpose_saving_throw, parsed_dc, Null))
    ELSE reqs

\* heuristic_response: the requests appended in the order of the code, with the DC read from m
RequestsWithDC(m, parsed_dc) ==
    SaveRequest(m,
        AbilityCheckRequest(m,
            DetectedCheckRequest(
                LiteralCheckRequest(AttackRequest(m, InitiativeRequest(m)),
                                       LiteralSkill(m), parsed_dc),
                DetectedSkill(m), parsed_dc),
            parsed_dc),
        parsed_dc)

\* the roll_requests heuristic_response builds from the lower-cased message m
HeuristicRollRequests(m) == RequestsWithDC(m, Mention("dc", m))

\* the model path: "initiative" in m
LlmInitiativeRequest(m) ==
    IF In(Word_initiative, m)
    THEN <<RollRequest("initiative", "1d20+2", Purpose_roll_initiative, Null, Null)>>
    ELSE <<>>

\* the model path: "attack" in m, after the requests reqs
LlmAttackRequest(m, reqs) ==
    IF In(Word_attack, m)
    THEN Append(reqs, RollRequest("attack", "1d20+5", Purpose_attack_roll, Null, 13))
    ELSE reqs

\* the model path: the loop over skills, k being the first skill named in m (0 for none)
LlmLiteralCheckRequest(reqs, k, parsed_dc) ==
    IF k # 0
    THEN Append(reqs, RollRequest("check", "1d20+3", title(skills[k]) \o Phrase_check,
                                  parsed_dc, Null))
    ELSE reqs

\* variant of LlmDetectedCheckRequest: the model path knows no synonyms
LlmDetectedCheckRequest_None(reqs, k, parsed_dc) == reqs

\* the model path: detected_skill, k being its index in synonyms (0 for None)
LlmDetectedCheckRequest(reqs, k, parsed_dc) ==
    IF k # 0 /\ ~HasCheck(reqs)
    THEN Append(reqs, RollRequest("check", "1d20+3", title(synonyms[k].skill) \o Phrase_check,
                                  parsed_dc, Null))
    ELSE reqs

\* the model path: "check" in m
LlmAbilityCheckRequest(m, reqs, parsed_dc) ==
    IF In(Word_check, m) /\ ~HasCheck(reqs)
    THEN Append(reqs, RollRequest("check", "1d20+3", Purpose_ability_check, parsed_dc, Null))
    ELSE reqs

\* the model path: "save" in m
LlmSaveRequest(m, reqs, parsed_dc) ==
    IF In(Word_save, m)
    THEN Append(reqs, RollRequest("save", "1d20+2", Purpose_saving_throw, parsed_dc, Null))
    ELSE reqs

\* the model path: the requests appended in the order of the code, with the DC read from m
LlmRequestsWithDC(m, parsed_dc) ==
    LlmSaveRequest(m,
        LlmAbilityCheckRequest(m,
            LlmDetectedCheckRequest(
                LlmLiteralCheckRequest(LlmAttackRequest(m, LlmInitiativeRequest(m)),
                                       LiteralSkill(m), parsed_dc),
                DetectedSkill(m), parsed_dc),
            parsed_dc),
        parsed_dc)

\* the roll_requests the model path builds from the lower-cased message m
LlmRollRequests(m) == LlmRequestsWithDC(m, Mention("dc", m))

\* type_label
TypeLabel(type) ==
    CASE type = "check" -> <<"C", "h", "e", "c", "k">>
      [] type = "save" -> <<"S", "a", "v", "i", "n", "g", " ", "T", "h", "r", "o", "w">>
      [] type = "attack" -> <<"A", "t", "t", "a", "c", "k">>
      [] type = "damage" -> <<"D", "a", "m", "a", "g", "e">>
      [] type = "initiative" -> <<"I", "n", "i", "t", "i", "a", "t", "i", "v", "e">>

\* base (the character U+2014 of the source is written "-")
Text_base ==
    <<"T", "h", "e", " ", "s", "c", "e", "n", "e", " ", "a", "w", "a", "i", "t", "s",
      " ", "y", "o", "u", "r", " ", "a", "c", "t", "i", "o", "n", ".", " ", "D", "e",
      "s", "c", "r", "i", "b", "e", " ", "w", "h", "a", "t", " ", "y", "o", "u", " ",
      "d", "o", " ", "n", "e", "x", "t", "-", "I", "'", "l", "l", " ", "r", "e", "s",
      "p", "o", "n", "d", " ", "w", "i", "t", "h", " ", "c", "l", "e", "a", "r", " ",
      "c", "o", "n", "s", "e", "q", "u", "e", "n", "c", "e", "s", " ", "a", "n", "d",
      " ", "o", "p", "t", "i", "o", "n", "s", ".">>

Text_please_roll == <<"P", "l", "e", "a", "s", "e", " ", "r", "o", "l", "l", " ">>

Text_A_dot == <<"A", ".">>

\* variant of HeuristicText: the sentence is built from the last request
HeuristicText_LastRequest(reqs, inline) ==
    IF Len(reqs) > 0
    THEN LET rr      == reqs[Len(reqs)]
             purpose == IF rr.purpose # <<>> THEN rr.purpose ELSE TypeLabel(rr.type)
             target  == IF rr.dc # Null THEN <<" ", "(", "D", "C", " ">> \o str(rr.dc) \o <<")">>
                        ELSE IF rr.ac # Null THEN <<" ", "(", "A", "C", " ">> \o str(rr.ac) \o <<")">>
                        ELSE <<>>
         IN  Text_please_roll \o purpose \o target \o <<".">>
    ELSE IF inline /\ ~In(Text_A_dot, Text_base)
         THEN Text_base \o build_lettered_options("none", <<>>, "None")
         ELSE Text_base

\* the text heuristic_response builds for the requests reqs; inline is
\* _truthy(os.getenv("INLINE_OPTIONS"))
HeuristicText(reqs, inline) ==
    IF Len(reqs) > 0
    THEN LET rr      == reqs[1]
             purpose == IF rr.purpose # <<>> THEN rr.purpose ELSE TypeLabel(rr.type)
             target  == IF rr.dc # Null THEN <<" ", "(", "D", "C", " ">> \o str(rr.dc) \o <<")">>
                        ELSE IF rr.ac # Null THEN <<" ", "(", "A", "C", " ">> \o str(rr.ac) \o <<")">>
                        ELSE <<>>
         IN  Text_please_roll \o purpose \o target \o <<".">>
    ELSE IF inline /\ ~In(Text_A_dot, Text_base)
         THEN Text_base \o build_lettered_options("none", <<>>, "None")
         ELSE Text_base

\* DMResponse(text=text, narration_segments=seg, roll_requests=roll_requests)
DMResponse(text_, reqs) == [text |-> text_, roll_requests |-> reqs]

\* the end of heuristic_response, from the roll requests on
HeuristicResponseFor(reqs, inline) == DMResponse(HeuristicText(reqs, inline), reqs)

\* the DMResponse of heuristic_response
heuristic_response(msg, inline) == HeuristicResponseFor(HeuristicRollRequests(lower(msg)), inline)

\* the model that is tried when the requested one fails, or none is requested
FallbackModel == "google/gemini-2.0-flash-exp:free"

\* variant of ModelsToTry: no fallback model is tried
ModelsToTry_RequestedOnly(requested_model) ==
    IF requested_model # "" THEN <<requested_model>> ELSE <<>>

\* models_to_try; requested_model is "" when OPENROUTER_MODEL is not set
ModelsToTry(requested_model) ==
    LET first == IF requested_model # "" THEN <<requested_model>> ELSE <<>>
    IN  IF \E k \in 1..Len(first) : first[k] = FallbackModel
        THEN first
        ELSE Append(first, FallbackModel)

\* str.rstrip()
rstrip(s) == SubSeq(s, 1, SkipSpacesBack(s, Len(s)))

\* the end of the model path, from the roll requests on
LlmResponseFor(reqs, content, inline) ==
    DMResponse(IF inline /\ Len(reqs) = 0 /\ ~In(Text_A_dot, content)
               THEN rstrip(content) \o Text_what_next
                    \o build_lettered_options("none", <<>>, "None")
               ELSE content,
               reqs)

\* the DMResponse built from the text a model answered with
LlmResponse(msg, content, inline) == LlmResponseFor(LlmRollRequests(lower(msg)), content, inline)

\* the menu /dm/options answers with when it does not use the model's text
GenericOptions ==
    << <<"A", ".", " ", "*", "*", "A", "p", "p", "r", "o", "a", "c", "h", " ", "c", "a",
         "u", "t", "i", "o", "u", "s", "l", "y", "*", "*", ",", " ", "g", "a", "t", "h",
         "e", "r", " ", "i", "n", "f", "o", "r", "m", "a", "t", "i", "o", "n", " ", "b",
         "e", "f", "o", "r", "e", " ", "a", "c", "t", "i", "n", "g", ".">>,
       <<"B", ".", " ", "*", "*", "C", "r", "e", "a", "t", "e", " ", "a", " ", "d", "i",
         "s", "t", "r", "a", "c", "t", "i", "o", "n", "*", "*", ",", " ", "s", "h", "i",
         "f", "t", " ", "a", "t", "t", "e", "n", "t", "i", "o", "n", " ", "i", "n", " ",
         "y", "o", "u", "r", " ", "f", "a", "v", "o", "r", ".">>,
       <<"C", ".", " ", "*", "*", "W", "i", "t", "h", "d", "r", "a", "w", " ", "a", "n",
         "d", " ", "r", "e", "a", "s", "s", "e", "s", "s", "*", "*", ",", " ", "p", "l",
         "a", "n", " ", "a", " ", "b", "e", "t", "t", "e", "r", " ", "a", "p", "p", "r",
         "o", "a", "c", "h", ".">> >>

(***************************************************************************)
(* State                                                                   *)
(***************************************************************************)
VARIABLES
    pc,        \* "input" while the inputs are being supplied, then the operation that ran
    raw,       \* /dm/options: the text the upstream model answered with
    picked,    \* the list normalize_options(raw) returned
    options,   \* /dm/options: the options of the response
    status,    \* /dm/options: the HTTP status of the response
    pieces,    \* the pieces the player's message was typed in
    message,   \* /dm/respond: the player's message
    result,    \* the roll total read from the message, Null when it reports none
    history,   \* /dm/respond: the history of the request
    last_kind, last_skill, last_dc, last_ac,   \* the pending roll read from the history
    success_flag,    \* "True", "False" or "None"
    summary,         \* the outcome line
    text,            \* /dm/respond: the text of the response
    roll_requests,   \* /dm/respond: the roll requests of the response
    via,             \* which part of respond built the response
    env,             \* the environment the request was served in, Null before it is
    calls,           \* requests served at the same time: what was sent, and how far each call is
    frames           \* the local variables of roll_followup_from_history, one frame per call

\* the variables roll_followup_from_history sets
followupVars == <<last_kind, last_skill, last_dc, last_ac, success_flag, summary>>

\* the response of /dm/respond
responseVars == <<text, roll_requests, via>>

vars == <<pc, raw, picked, options, status, pieces, message, result, history,
          followupVars, responseVars, env, calls, frames>>

\* the variables of /dm/options
optionsVars == <<raw, picked, options, status>>

\* the variables of /dm/respond
respondVars == <<pieces, message, result, history, followupVars, responseVars, env, calls, frames>>

\* how many lines the upstream text may have
MaxLines == 4

\* the lines the upstream text is made of
LineChoices ==
    { <<"A", ".", " ", "S", "n", "e", "a", "k", " ", "a", "w", "a", "y">>,
      <<"B", ".", " ", "F", "i", "g", "h", "t">>,
      <<"C", ".", " ">>,
      <<" ", "A", ".", " ", "x", ",", "y", ",", " ", "z", " ">>,
      <<"D", ".", " ", "R", "u", "n">>,
      <<"B", ".", " ", "*", "*", "H", "i", "d", "e", "*", "*", ",", " ", "w", "a", "i",
        "t">>,
      <<" ", " ">>,
      <<"C", ".", ",", "y">> }

\* what the call of the upstream model may end in
UpstreamOutcomes == {"200", "non200", "exception"}

\* how many lines the text s was given
LineCount(s) == IF s = <<>> THEN 0 ELSE Cardinality({i \in 1..Len(s) : s[i] = "\n"}) + 1

InitOptions ==
    /\ pc = "input"
    /\ raw = <<>>
    /\ picked = <<>>
    /\ options = <<>>
    /\ status = Null
    /\ pieces = <<>>
    /\ message = <<>>
    /\ result = Null
    /\ history = <<>>
    /\ last_kind = "none"
    /\ last_skill = <<>>
    /\ last_dc = Null
    /\ last_ac = Null
    /\ success_flag = "None"
    /\ summary = <<>>
    /\ text = <<>>
    /\ roll_requests = <<>>
    /\ via = "none"
    /\ env = Null
    /\ calls = <<>>
    /\ frames = <<>>

\* the upstream model's text grows by one line
AppendLine(ln) ==
    /\ pc = "input"
    /\ LineCount(raw) < MaxLines
    /\ raw' = IF raw = <<>> THEN ln ELSE raw \o <<"\n">> \o ln
    /\ UNCHANGED <<pc, picked, options, status, respondVars>>

\* normalize_options applied to the text
NormalizeOptions ==
    /\ pc = "input"
    /\ picked' = normalize_options(raw)
    /\ pc' = "normalized"
    /\ UNCHANGED <<raw, options, status, respondVars>>

\* POST /dm/options
GenerateOptions(api_key, outcome) ==
    /\ pc = "input"
    /\ options' = IF ~api_key THEN GenericOptions
                  ELSE IF outcome = "200" THEN normalize_options(raw)
                  ELSE GenericOptions
    /\ status' = 200
    /\ pc' = "responded"
    /\ env' = [api_key |-> api_key, outcome |-> outcome]
    /\ UNCHANGED <<calls, frames>>
    /\ UNCHANGED <<raw, picked, pieces, message, result, history, followupVars, responseVars>>

NextOptions ==
    \/ \E ln \in LineChoices : AppendLine(ln)
    \/ NormalizeOptions
    \/ \E api_key \in BOOLEAN, outcome \in UpstreamOutcomes : GenerateOptions(api_key, outcome)

SpecOptions == InitOptions /\ [][NextOptions]_vars

(***************************************************************************)
(* The roll total of a message                                             *)
(***************************************************************************)
\* how many pieces a player's message may be made of
MaxTokens == 4

\* the pieces a player's message is made of
MessageTokens ==
    { <<"I", " ", "r", "o", "l", "l", "e", "d", " ">>,
      <<"R", "o", "l", "l", "e", "d", " ">>,
      <<"1", "d", "2", "0", "+", "3">>,
      <<" ", "=", " ">>,
      <<"1", "5">>,
      <<"1", "2">>,
      <<" ", "t", "o", "t", "a", "l", ":", " ">>,
      <<" ", "t", "o", "t", "a", "l">>,
      <<"h", "e", "l", "l", "o", " ", "t", "h", "e", "r", "e">>,
      <<"7", " ">> }

InitExtract ==
    /\ pc = "input"
    /\ raw = <<>>
    /\ picked = <<>>
    /\ options = <<>>
    /\ status = Null
    /\ pieces = <<>>
    /\ message = <<>>
    /\ result = Null
    /\ history = <<>>
    /\ last_kind = "none"
    /\ last_skill = <<>>
    /\ last_dc = Null
    /\ last_ac = Null
    /\ success_flag = "None"
    /\ summary = <<>>
    /\ text = <<>>
    /\ roll_requests = <<>>
    /\ via = "none"
    /\ env = Null
    /\ calls = <<>>
    /\ frames = <<>>

\* the player's message grows by one piece
AppendToken(tok) ==
    /\ pc = "input"
    /\ Len(pieces) < MaxTokens
    /\ pieces' = Append(pieces, tok)
    /\ message' = message \o tok
    /\ UNCHANGED <<pc, result, optionsVars, history, followupVars, responseVars, env, calls, frames>>

\* the pattern loop of roll_followup_from_history applied to the message
ExtractRollTotal ==
    /\ pc = "input"
    /\ result' = RollResult(message)
    /\ pc' = "extracted"
    /\ UNCHANGED <<pieces, message, optionsVars, history, followupVars, responseVars, env, calls, frames>>

NextExtract ==
    \/ \E tok \in MessageTokens : AppendToken(tok)
    \/ ExtractRollTotal

SpecExtract == InitExtract /\ [][NextExtract]_vars

(***************************************************************************)
(* POST /dm/respond                                                        *)
(***************************************************************************)
\* how many turns a history may have
MaxHist == 9

\* how many assistant turns a history may have
MaxAssistant == 2

\* the messages of the requests with a history
RespondMessages ==
    { <<"I", " ", "r", "o", "l", "l", "e", "d", " ", "1", "6">>,
      <<"I", " ", "r", "o", "l", "l", "e", "d", " ", "1", "0">>,
      <<"t", "o", "t", "a", "l", ":", " ", "1", "3">>,
      <<"I", " ", "h", "i", "d", "e">> }

\* the texts the upstream model may answer with
LlmContents ==
    { <<"T", "h", "e", " ", "g", "u", "a", "r", "d", " ", "n", "o", "d", "s", ".">>,
      <<"Y", "o", "u", " ", "m", "a", "y", ":", " ", "A", ".", " ", "F", "i", "g", "h",
        "t">> }

\* the environment of a request: OPENROUTER_API_KEY is set, INLINE_OPTIONS is truthy,
\* OPENROUTER_MODEL ("" when not set), how the call of each model tried ends, and the
\* text of the answer of the first and of the second model tried
Environments ==
    [api_key : BOOLEAN, inline : BOOLEAN,
     requested_model : {"", "openai/gpt-4o-mini", FallbackModel},
     outcomes : [1..2 -> UpstreamOutcomes], content : LlmContents, content2 : LlmContents]

\* the environments of the requests with a history: no API key, or a key and an
\* upstream that answers
HistoryEnvironments ==
    {e \in Environments :
        /\ ~e.inline
        /\ e.requested_model = ""
        /\ e.content = CHOOSE c \in LlmContents : ~In(Text_A_dot, c)
        /\ e.content2 = e.content
        /\ e.outcomes = [k \in 1..2 |-> IF e.api_key THEN "200" ELSE "exception"]}

AssistantTurns(hist) == Cardinality({k \in 1..Len(hist) : hist[k].role = "assistant"})

Init ==
    /\ pc = "input"
    /\ raw = <<>>
    /\ picked = <<>>
    /\ options = <<>>
    /\ status = Null
    /\ pieces = <<>>
    /\ message = <<>>
    /\ result = Null
    /\ history = <<>>
    /\ last_kind = "none"
    /\ last_skill = <<>>
    /\ last_dc = Null
    /\ last_ac = Null
    /\ success_flag = "None"
    /\ summary = <<>>
    /\ text = <<>>
    /\ roll_requests = <<>>
    /\ via = "none"
    /\ env = Null
    /\ calls = <<>>
    /\ frames = <<>>

\* the conversation goes on by one turn
AppendTurn(turn) ==
    /\ pc = "input"
    /\ Len(history) < MaxHist
    /\ turn.role = "assistant" => AssistantTurns(history) < MaxAssistant
    /\ history' = Append(history, turn)
    /\ UNCHANGED <<pc, optionsVars, pieces, message, result, followupVars, responseVars, env, calls, frames>>

\* variant of FirstAnswer: only the first model is tried
FirstAnswer_FirstModelOnly(models, outcomes) ==
    IF models # <<>> /\ outcomes[1] = "200" THEN 1 ELSE 0

\* the index in models of the first model whose call answers 200, 0 if none does
FirstAnswer(models, outcomes) ==
    LET hits == {k \in 1..Len(models) : outcomes[k] = "200"}
    IN  IF hits = {} THEN 0 ELSE Least(hits)

\* POST /dm/respond with message msg and the history, in environment e
Respond(msg, e) ==
    /\ pc = "input"
    /\ pc' = "responded"
    /\ message' = msg
    /\ env' = e
    /\ UNCHANGED <<calls, frames>>
    /\ UNCHANGED <<optionsVars, pieces, history>>
    /\ \E total \in {RollResult(msg)} :
        /\ result' = total
        /\ IF total # Null
           THEN \E c \in {DefaultTargets(ScanHistory(history))} :
                \E s \in {outcome_line(c.kind, c.skill, c.dc, c.ac, total)} :
                \E f \in {SuccessFlag(c.kind, c.dc, c.ac, total)} :
                    /\ last_kind' = c.kind
                    /\ last_skill' = c.skill
                    /\ last_dc' = c.dc
                    /\ last_ac' = c.ac
                    /\ summary' = s
                    /\ success_flag' = f
                    /\ text' = s \o Text_what_next \o build_lettered_options(c.kind, c.skill, f)
                    /\ roll_requests' = <<>>
                    /\ via' = "followup"
           ELSE \E answer \in {IF e.api_key
                                THEN FirstAnswer(ModelsToTry(e.requested_model), e.outcomes)
                                ELSE 0} :
                \E r \in {IF answer # 0
                           THEN LlmResponse(msg, IF answer = 1 THEN e.content ELSE e.content2,
                                            e.inline)
                           ELSE heuristic_response(msg, e.inline)} :
                    /\ text' = r.text
                    /\ roll_requests' = r.roll_requests
                    /\ via' = IF answer # 0 THEN "model" ELSE "heuristic"
                    /\ UNCHANGED followupVars

Next ==
    \/ \E turn \in TurnChoices : AppendTurn(turn)
    \/ \E msg \in RespondMessages, e \in HistoryEnvironments : Respond(msg, e)

Spec == Init /\ [][Next]_vars

(***************************************************************************)
(* build_lettered_options on its own                                       *)
(***************************************************************************)
\* the kinds build_lettered_options is called with: the four it knows, None ("none")
\* and strings it does not know
MenuKinds == {"check", "save", "attack", "initiative", "none", "damage", "Check"}

\* the skills it is called with: None (<<>>), the skills and the abilities in lower
\* case, the skills with capitals, and a word that is no skill
MenuSkills ==
    {<<>>, <<"c", "o", "o", "k", "i", "n", "g">>}
        \cup {skill_list[i] : i \in 1..Len(skill_list)}
        \cup {title(skill_list[i]) : i \in 1..Len(skill_list)}
        \cup {saves[i] : i \in 1..Len(saves)}

\* the values of success: True, False, None
MenuVerdicts == {"True", "False", "None"}

\* the arguments of a call of build_lettered_options are held in last_kind, last_skill
\* and success_flag
InitMenu ==
    /\ pc = "input"
    /\ raw = <<>>
    /\ picked = <<>>
    /\ options = <<>>
    /\ status = Null
    /\ pieces = <<>>
    /\ message = <<>>
    /\ result = Null
    /\ history = <<>>
    /\ last_kind \in MenuKinds
    /\ last_skill \in MenuSkills
    /\ last_dc = Null
    /\ last_ac = Null
    /\ success_flag \in MenuVerdicts
    /\ summary = <<>>
    /\ text = <<>>
    /\ roll_requests = <<>>
    /\ via = "none"
    /\ env = Null
    /\ calls = <<>>
    /\ frames = <<>>

\* build_lettered_options(last_kind, last_skill, success_flag)
BuildLetteredOptions ==
    /\ pc = "input"
    /\ text' = build_lettered_options(last_kind, last_skill, success_flag)
    /\ pc' = "built"
    /\ UNCHANGED <<optionsVars, pieces, message, result, history, followupVars,
                   roll_requests, via, env, calls, frames>>

NextMenu == BuildLetteredOptions

SpecMenu == InitMenu /\ [][NextMenu]_vars

(***************************************************************************)
(* POST /dm/respond after one assistant turn that asks for a skill check   *)
(***************************************************************************)
InitCheck ==
    /\ pc = "input"
    /\ raw = <<>>
    /\ picked = <<>>
    /\ options = <<>>
    /\ status = Null
    /\ pieces = <<>>
    /\ message = <<>>
    /\ result = Null
    /\ history \in {<<[role |-> "assistant", content |-> c]>> : c \in CheckRequests}
    /\ last_kind = "none"
    /\ last_skill = <<>>
    /\ last_dc = Null
    /\ last_ac = Null
    /\ success_flag = "None"
    /\ summary = <<>>
    /\ text = <<>>
    /\ roll_requests = <<>>
    /\ via = "none"
    /\ env = Null
    /\ calls = <<>>
    /\ frames = <<>>

NextCheck == \E msg \in RespondMessages, e \in HistoryEnvironments : Respond(msg, e)

SpecCheck == InitCheck /\ [][NextCheck]_vars

(***************************************************************************)
(* POST /dm/respond with a message that says what the player does, with    *)
(* an empty history                                                        *)
(***************************************************************************)
\* how a message begins: with a word that stands for stealth
StealthOpenings ==
    { <<"I", " ", "t", "r", "y", " ", "t", "o", " ", "s", "n", "e", "a", "k", " ", "p",
      "a", "s", "t", " ", "t", "h", "e", " ", "g", "u", "a", "r", "d", "s">>,
      <<"I", " ", "H", "I", "D", "E", " ", "i", "n", " ", "t", "h", "e", " ", "s", "h",
      "a", "d", "o", "w", "s">>,
      <<"I", " ", "d", "i", "s", "t", "r", "a", "c", "t", " ", "t", "h", "e", " ", "g",
      "u", "a", "r", "d", " ", "a", "n", "d", " ", "s", "n", "e", "a", "k", " ", "b",
      "y">> }

\* how a message begins: with the report of a roll, with nothing the classifier knows
OtherOpenings ==
    { <<"I", " ", "r", "o", "l", "l", "e", "d", " ", "1", "2", " ", "s", "n", "e", "a",
      "k", "i", "n", "g">>,
      <<"I", " ", "o", "p", "e", "n", " ", "t", "h", "e", " ", "d", "o", "o", "r">> }

\* the DCs a message states
MessageDCs == {9, 14, 15}

\* the ways a message states the DC n
DCPhrases(n) ==
    { <<" ", "(", "D", "C", " ">> \o str(n) \o <<")">>,
      <<" ", "(", "d", "c", " ">> \o str(n) \o <<")">>,
      <<",", " ", "d", "i", "f", "f", "i", "c", "u", "l", "t", "y", " ", "c", "l", "a",
      "s", "s", " ">> \o str(n) }

\* how a message ends: with the name of a skill
SkillEndings ==
    { <<" ", "s", "t", "e", "a", "l", "t", "h", "i", "l", "y">>,
      <<" ", "w", "i", "t", "h", " ", "a", " ", "p", "e", "r", "c", "e", "p", "t", "i",
      "o", "n", " ", "c", "h", "e", "c", "k">>,
      <<" ", "u", "s", "i", "n", "g", " ", "p", "e", "r", "c", "e", "p", "t", "i", "o",
      "n", " ", "t", "h", "e", "n", " ", "s", "t", "e", "a", "l", "t", "h">> }

\* how a message ends: without the name of a skill
OtherEndings ==
    { <<>>,
      <<" ", "a", "n", "d", " ", "a", "t", "t", "a", "c", "k">>,
      <<" ", "b", "e", "f", "o", "r", "e", " ", "i", "n", "i", "t", "i", "a", "t", "i",
      "v", "e">>,
      <<" ", "t", "o", " ", "s", "a", "v", "e", " ", "h", "i", "m">>,
      <<" ", "a", "n", "d", " ", "c", "h", "e", "c", "k", " ", "t", "h", "e", " ", "l",
      "o", "c", "k">>,
      <<" ", "t", "h", "e", "n", " ", "a", "t", "t", "a", "c", "k", " ", "b", "e", "f",
      "o", "r", "e", " ", "i", "n", "i", "t", "i", "a", "t", "i", "v", "e", " ", "t",
      "o", " ", "s", "a", "v", "e", " ", "h", "i", "m">> }

\* the environments of these requests: OPENROUTER_MODEL is not set or names a model
\* other than the fallback model; what is never read is held fixed (the second
\* outcome when one model is tried, the model and the outcomes when no key is set)
ClassifyEnvironments ==
    {e \in Environments :
        /\ e.requested_model # FallbackModel
        /\ e.content2 = e.content
        /\ e.requested_model = "" => e.outcomes[2] = "exception"
        /\ ~e.api_key => (e.requested_model = "" /\ e.outcomes[1] = "exception")}

\* the player writes a message
ComposeMessage(opening, target, ending) ==
    /\ pc = "input"
    /\ pieces = <<>>
    /\ pieces' = <<opening, target, ending>>
    /\ message' = opening \o target \o ending
    /\ UNCHANGED <<pc, result, optionsVars, history, followupVars, responseVars, env, calls, frames>>

\* POST /dm/respond with the message written
RespondToMessage(e) ==
    /\ pieces # <<>>
    /\ Respond(message, e)

NextClassify ==
    \/ \E opening \in StealthOpenings \cup OtherOpenings,
          target \in {<<>>} \cup UNION {DCPhrases(n) : n \in MessageDCs},
          ending \in SkillEndings \cup OtherEndings :
            ComposeMessage(opening, target, ending)
    \/ \E e \in ClassifyEnvironments : RespondToMessage(e)

SpecClassify == Init /\ [][NextClassify]_vars

(***************************************************************************)
(* POST /dm/respond served for several requests at the same time, without  *)
(* an API key: the steps of the calls interleave                           *)
(***************************************************************************)
\* the requests in flight
Requests == {1, 2}

\* variant of Frame: the calls keep their local variables in one place
Frame_Shared(r) == 1

\* the frame that holds the local variables of the call that serves request r:
\* every call has its own
Frame(r) == r

\* what the assistant said in the histories of these requests
ConcurrentContents ==
    { <<"M", "a", "k", "e", " ", "a", " ", "S", "t", "e", "a", "l", "t", "h", " ", "c",
      "h", "e", "c", "k", ",", " ", "D", "C", " ", "1", "4", ".">>,
      <<"T", "h", "e", " ", "g", "u", "a", "r", "d", " ", "h", "a", "s", " ", "A", "C",
      " ", "1", "2", ",", " ", "t", "h", "e", " ", "l", "o", "c", "k", " ", "i", "s",
      " ", "D", "C", " ", "1", "0", ".">>,
      <<"M", "a", "k", "e", " ", "a", "n", " ", "a", "t", "t", "a", "c", "k", " ", "r",
      "o", "l", "l", ".">> }

\* the histories of these requests
ConcurrentHistories ==
    {<<>>} \cup UNION {[1..n -> [role : {"assistant"}, content : ConcurrentContents]] : n \in 1..2}

InitConcurrent ==
    /\ pc = "input"
    /\ raw = <<>>
    /\ picked = <<>>
    /\ options = <<>>
    /\ status = Null
    /\ pieces = <<>>
    /\ message = <<>>
    /\ result = Null
    /\ history = <<>>
    /\ last_kind = "none"
    /\ last_skill = <<>>
    /\ last_dc = Null
    /\ last_ac = Null
    /\ success_flag = "None"
    /\ summary = <<>>
    /\ text = <<>>
    /\ roll_requests = <<>>
    /\ via = "none"
    /\ env \in {e \in HistoryEnvironments : ~e.api_key}
    /\ \E sent \in [Requests -> [message : RespondMessages, history : ConcurrentHistories]] :
          calls = [r \in Requests |->
                      [sent |-> sent[r], req |-> sent[r], pc |-> "start", k |-> 0,
                       response |-> Null]]
    /\ frames = [f \in {Frame(r) : r \in Requests} |->
                    [result |-> Null, last_kind |-> "none", last_skill |-> <<>>,
                     last_dc |-> Null, last_ac |-> Null]]

\* the pattern loop, and the local variables of the scan set to None
ExtractTotal(r) ==
    /\ calls[r].pc = "start"
    /\ \E total \in {RollResult(calls[r].req.message)} :
          /\ frames' = [frames EXCEPT ![Frame(r)] =
                            [result |-> total, last_kind |-> "none", last_skill |-> <<>>,
                             last_dc |-> Null, last_ac |-> Null]]
          /\ calls' = [calls EXCEPT ![r].pc = IF total = Null THEN "classify" ELSE "scan",
                                    ![r].k = 1]
    /\ UNCHANGED <<pc, optionsVars, pieces, message, result, history, followupVars,
                   responseVars, env>>

\* the body of the for loop for an assistant turn with cues, on the local variables
LoopBody(frame, cues) ==
    [frame EXCEPT !.last_dc = IF cues.dc # Null THEN cues.dc ELSE @,
                  !.last_ac = IF cues.ac # Null THEN cues.ac ELSE @,
                  !.last_kind = cues.kind,
                  !.last_skill = cues.skill]

\* one pass of the for loop over reversed(history[-8:]), or its end
ScanStep(r) ==
    /\ calls[r].pc = "scan"
    /\ \E turns \in {ScannedTurns(calls[r].req.history)} :
          IF calls[r].k > Len(turns)
          THEN /\ calls' = [calls EXCEPT ![r].pc = "evaluate"]
               /\ UNCHANGED frames
          ELSE IF turns[calls[r].k].role # "assistant"
          THEN /\ calls' = [calls EXCEPT ![r].k = @ + 1]
               /\ UNCHANGED frames
          ELSE \E cues \in {CuesOf[turns[calls[r].k].content]} :
               /\ frames' = [frames EXCEPT ![Frame(r)] = LoopBody(@, cues)]
               /\ calls' = IF cues.kind # "none"
                           THEN [calls EXCEPT ![r].pc = "evaluate"]
                           ELSE [calls EXCEPT ![r].k = @ + 1]
    /\ UNCHANGED <<pc, optionsVars, pieces, message, result, history, followupVars,
                   responseVars, env>>

\* the response of the follow-up for the context c and the total
FollowupFor(c, total) ==
    DMResponse(outcome_line(c.kind, c.skill, c.dc, c.ac, total) \o Text_what_next
                   \o build_lettered_options(c.kind, c.skill,
                                             SuccessFlag(c.kind, c.dc, c.ac, total)),
               <<>>)

\* the defaults, the outcome and the response of the follow-up
Evaluate(r) ==
    /\ calls[r].pc = "evaluate"
    /\ \E fr \in {frames[Frame(r)]} :
          calls' = [calls EXCEPT
                       ![r].pc = "done",
                       ![r].response =
                           FollowupFor(DefaultTargets([kind |-> fr.last_kind,
                                                       skill |-> fr.last_skill,
                                                       dc |-> fr.last_dc, ac |-> fr.last_ac]),
                                       fr.result)]
    /\ UNCHANGED <<pc, optionsVars, pieces, message, result, history, followupVars,
                   responseVars, env, frames>>

\* no total in the message and no API key: heuristic_response
Classify(r) ==
    /\ calls[r].pc = "classify"
    /\ calls' = [calls EXCEPT ![r].pc = "done",
                              ![r].response = heuristic_response(calls[r].req.message, env.inline)]
    /\ UNCHANGED <<pc, optionsVars, pieces, message, result, history, followupVars,
                   responseVars, env, frames>>

NextConcurrent ==
    \E r \in Requests : ExtractTotal(r) \/ ScanStep(r) \/ Evaluate(r) \/ Classify(r)

SpecConcurrent == InitConcurrent /\ [][NextConcurrent]_vars

(***************************************************************************)
(* POST /dm/respond after one assistant turn that names two skills         *)
(***************************************************************************)
InitPairs ==
    /\ pc = "input"
    /\ raw = <<>>
    /\ picked = <<>>
    /\ options = <<>>
    /\ status = Null
    /\ pieces = <<>>
    /\ message = <<>>
    /\ result = Null
    /\ history \in {<<[role |-> "assistant", content |-> c]>> : c \in PairRequests}
    /\ last_kind = "none"
    /\ last_skill = <<>>
    /\ last_dc = Null
    /\ last_ac = Null
    /\ success_flag = "None"
    /\ summary = <<>>
    /\ text = <<>>
    /\ roll_requests = <<>>
    /\ via = "none"
    /\ env = Null
    /\ calls = <<>>
    /\ frames = <<>>

NextPairs == \E msg \in RespondMessages, e \in HistoryEnvironments : Respond(msg, e)

SpecPairs == InitPairs /\ [][NextPairs]_vars

(***************************************************************************)
(* A request to /dm/options or to /dm/respond, whatever the calls of the    *)
(* upstream models end in                                                  *)
(***************************************************************************)
\* the texts the upstream model may answer /dm/options with
UpstreamTexts ==
    { <<"A", ".", " ", "S", "n", "e", "a", "k", " ", "a", "w", "a", "y", "\n", "B", ".",
        " ", "F", "i", "g", "h", "t">>,
      <<"D", ".", " ", "R", "u", "n", "\n", " ", "A", ".", " ", "x", ",", "y", ",", " ",
        "z", " ", "\n", "B", ".", " ", "F", "i", "g", "h", "t">> }

\* the messages of the requests
UpstreamMessages ==
    { <<"I", " ", "h", "i", "d", "e">>,
      <<"I", " ", "o", "p", "e", "n", " ", "t", "h", "e", " ", "d", "o", "o", "r">>,
      <<"I", " ", "r", "o", "l", "l", "e", "d", " ", "1", "6">> }

\* the upstream model's text for the next call of /dm/options
UpstreamAnswers(txt) ==
    /\ pc = "input"
    /\ raw = <<>>
    /\ raw' = txt
    /\ UNCHANGED <<pc, picked, options, status, respondVars>>

NextUpstream ==
    \/ \E txt \in UpstreamTexts : UpstreamAnswers(txt)
    \/ \E api_key \in BOOLEAN, outcome \in UpstreamOutcomes : GenerateOptions(api_key, outcome)
    \/ \E msg \in UpstreamMessages, e \in Environments : Respond(msg, e)

SpecUpstream == Init /\ [][NextUpstream]_vars

(***************************************************************************)
(* Claims about normalize_options, checked under SpecOptions               *)
(***************************************************************************)
\* the lines of raw that normalize_options keeps
ValidLines(txt) == SelectSeq(StrippedLines(txt), OptionLineMatches)

Letters == <<"A", "B", "C">>

BoldOpen == <<".", " ", "*", "*">>

BoldCloseComma == <<"*", "*", ",", " ">>

\* C1: normalize_options is idempotent: applied to the three lines it returned,
\* joined by newlines, it returns the same three strings.
C1_Idempotent ==
    pc = "normalized" => normalize_options(join(<<"\n">>, picked)) = picked

\* C2: normalize_options returns exactly 3 entries for every text: the kept lines in
\* order, padded with the generic filler while fewer than 3 were found, and every
\* kept line after the third dropped.
C2_ExactlyThree ==
    pc = "normalized" =>
        /\ Len(picked) = 3
        /\ \A i \in 1..3 :
              IF i <= Len(ValidLines(raw))
              THEN picked[i][1] = ValidLines(raw)[i][1]
              ELSE Tail(picked[i]) = Tail(Filler("A"))

\* C2 witness: a text of more than three kept lines has been normalized
C2_Witness ==
    pc = "normalized" /\ Len(ValidLines(raw)) > 3 /\ Len(picked) = 3

\* C3: every menu normalize_options returns carries the letters A, B, C exactly once
\* each and in that order.
C3_LettersInOrder ==
    pc = "normalized" => \A i \in 1..Len(picked) : picked[i][1] = Letters[i]

\* "<Letter>. **<head>**, <tail>" with a non-empty head
IsCanonical(e) ==
    /\ Len(e) >= 5
    /\ e[1] \in {"A", "B", "C"}
    /\ SubSeq(e, 2, 5) = BoldOpen
    /\ \E k \in 7..(Len(e) - 3) : SubSeq(e, k, k + 3) = BoldCloseComma

\* C4 as stated: every entry normalize_options returns has the canonical shape
\* "<Letter>. **<head>**, <tail>" with a non-empty bold head, for every text.
C4_AlwaysCanonical ==
    pc = "normalized" => \A i \in 1..Len(picked) : IsCanonical(picked[i])

\* "<Letter>. **<head>**, <tail>", the head possibly empty
HasCommaShape(e) ==
    /\ Len(e) >= 5
    /\ e[1] \in {"A", "B", "C"}
    /\ SubSeq(e, 2, 5) = BoldOpen
    /\ \E k \in 6..(Len(e) - 3) : SubSeq(e, k, k + 3) = BoldCloseComma

\* "<Letter>. **<body>**" with no comma, the body possibly empty
HasBodyShape(e) ==
    /\ Len(e) >= 7
    /\ e[1] \in {"A", "B", "C"}
    /\ SubSeq(e, 2, 5) = BoldOpen
    /\ SubSeq(e, Len(e) - 1, Len(e)) = <<"*", "*">>
    /\ \A k \in 1..Len(e) : e[k] # ","

\* C4 amended: an entry made from a line with a comma is "<Letter>. **<head>**, <tail>"
\* (head and tail possibly empty), an entry made from a line without a comma is
\* "<Letter>. **<body>**" with no comma and no description, and a padding entry is
\* "<Letter>. **<head>**, <tail>".
C4_ShapeByComma ==
    pc = "normalized" =>
        \A i \in 1..Len(picked) :
            IF i <= Len(ValidLines(raw)) /\ ~In(<<",">>, ValidLines(raw)[i])
            THEN HasBodyShape(picked[i])
            ELSE HasCommaShape(picked[i])

\* C4 witness: a text with a kept line without a comma and a kept line with one
C4_Witness ==
    /\ pc = "normalized"
    /\ Len(ValidLines(raw)) >= 2
    /\ ~In(<<",">>, ValidLines(raw)[1])
    /\ In(<<",">>, ValidLines(raw)[2])
    /\ HasBodyShape(picked[1])
    /\ HasCommaShape(picked[2])

(***************************************************************************)
(* Claims about the roll total, checked under SpecExtract                  *)
(***************************************************************************)
AllSpaces(s, a, b) == \A k \in a..b : s[k] \in {" ", "\n", "\t"}

AllDigits(s, a, b) == \A k \in a..b : s[k] \in {"0", "1", "2", "3", "4", "5", "6", "7", "8", "9"}

NoDigits(s, a, b) == \A k \in a..b : s[k] \notin {"0", "1", "2", "3", "4", "5", "6", "7", "8", "9"}

\* the text s[a..b-1] is a number that stands between word boundaries on its right
IsNumberAt(s, a, b) ==
    /\ a < b
    /\ b <= Len(s) + 1
    /\ AllDigits(s, a, b - 1)
    /\ b = Len(s) + 1 \/ ~IsWordChar(s[b])

\* the occurrences <<i, a, b>> of "I rolled <N>" in s: the word i at position i, not
\* preceded by a word character, spaces, "rolled", spaces, and the number s[a..b-1]
IRolledOccurrences(s) ==
    UNION { UNION { UNION { { <<i, a, b>> :
                b \in {b \in (a + 1)..(Len(s) + 1) : IsNumberAt(s, a, b)} } :
            a \in {a \in (r + 6)..Len(s) : AllSpaces(s, r + 6, a - 1)} } :
        r \in {r \in (i + 1)..Len(s) : StartsWith(s, r, Word_rolled) /\ AllSpaces(s, i + 1, r - 1)} } :
    i \in {i \in 1..Len(s) : s[i] = "i" /\ (i = 1 \/ ~IsWordChar(s[i - 1]))} }

\* the occurrences <<i, a, b>> of "rolled ... <N>" in s: "rolled" at position i, no
\* digit up to the number s[a..b-1]
RolledOccurrences(s) ==
    UNION { UNION { { <<i, a, b>> :
            b \in {b \in (a + 1)..(Len(s) + 1) : IsNumberAt(s, a, b)} } :
        a \in {a \in (i + 6)..Len(s) : NoDigits(s, i + 6, a - 1)} } :
    i \in {i \in 1..Len(s) : StartsWith(s, i, Word_rolled)} }

\* the occurrences <<i, a, b>> of "total: <N>" or "total = <N>" in s
TotalOccurrences(s) ==
    UNION { UNION { UNION { { <<i, a, b>> :
                b \in {b \in (a + 1)..(Len(s) + 1) : IsNumberAt(s, a, b)} } :
            a \in {a \in (c + 1)..Len(s) : AllSpaces(s, c + 1, a - 1)} } :
        c \in {c \in (i + 5)..Len(s) : s[c] \in {":", "="} /\ AllSpaces(s, i + 5, c - 1)} } :
    i \in {i \in 1..Len(s) : StartsWith(s, i, Word_total) /\ (i = 1 \/ ~IsWordChar(s[i - 1]))} }

\* the number of the leftmost of the occurrences occ of a pattern in s
LeftmostNumber(s, occ) ==
    LET o == CHOOSE x \in occ : \A y \in occ : x[1] <= y[1]
    IN  int(SubSeq(s, o[2], o[3] - 1))

Msg_IRolled12 == <<"I", " ", "r", "o", "l", "l", "e", "d", " ", "1", "2">>

Msg_HelloThere == <<"h", "e", "l", "l", "o", " ", "t", "h", "e", "r", "e">>

Msg_IRolled12Total15 == <<"I", " ", "r", "o", "l", "l", "e", "d", " ", "1", "2", " ", "t", "o", "t", "a",
      "l", ":", " ", "1", "5">>

Msg_RolledFormula15 == <<"R", "o", "l", "l", "e", "d", " ", "1", "d", "2", "0", "+", "3", " ", "=", " ",
      "1", "5">>

\* C5: the three patterns are tried in the order "I rolled N", "rolled ... N",
\* "total: N" / "total = N"; the result is the number of the first pattern that
\* occurs in the message, and null when none occurs ("I rolled 12" gives 12,
\* "hello there" gives null).
C5_FirstPatternWins ==
    pc = "extracted" =>
        LET m == lower(message)
        IN  /\ result = IF IRolledOccurrences(m) # {} THEN LeftmostNumber(m, IRolledOccurrences(m))
                        ELSE IF RolledOccurrences(m) # {} THEN LeftmostNumber(m, RolledOccurrences(m))
                        ELSE IF TotalOccurrences(m) # {} THEN LeftmostNumber(m, TotalOccurrences(m))
                        ELSE Null
            /\ message = Msg_IRolled12 => result = 12
            /\ message = Msg_HelloThere => result = Null
            /\ message = Msg_IRolled12Total15 => result = 12

\* C5 witness: a message in which "I rolled 12" and "rolled 7" both occur, read as 12
C5_Witness ==
    /\ pc = "extracted"
    /\ IRolledOccurrences(lower(message)) # {}
    /\ LeftmostNumber(lower(message), RolledOccurrences(lower(message))) = 7
    /\ result = 12

\* C6: the message "Rolled 1d20+3 = 15" is read as the reported total 15.
C6_FormulaThenTotal ==
    pc = "extracted" /\ message = Msg_RolledFormula15 => result = 15

(***************************************************************************)
(* Claims about the roll follow-up of /dm/respond                          *)
(***************************************************************************)
\* the request was answered by roll_followup_from_history
FollowedUp == pc = "responded" /\ via = "followup"

\* index of the oldest turn among the last 8 turns of hist
WindowStart(hist) == IF Len(hist) > 8 THEN Len(hist) - 7 ELSE 1

\* the assistant turns among the last 8 turns of hist from which a kind is classified
ClassifyingTurns(hist) ==
    {k \in WindowStart(hist)..Len(hist) :
        hist[k].role = "assistant" /\ CuesOf[hist[k].content].kind # "none"}

\* index of the most recent of them, 0 when there is none
TerminatingTurn(hist) ==
    IF ClassifyingTurns(hist) = {} THEN 0
    ELSE CHOOSE k \in ClassifyingTurns(hist) : \A j \in ClassifyingTurns(hist) : j <= k

\* the turns of hist outside the last 8 and those older than turn t
IgnoredTurns(hist, t) == {k \in 1..Len(hist) : k < WindowStart(hist) \/ k < t}

\* the context the follow-up resolved, as the response's state holds it
ResolvedContext == [kind |-> last_kind, skill |-> last_skill, dc |-> last_dc, ac |-> last_ac]

\* hist with each of the turns at the indices in ks rewritten to turn
Rewritten(hist, ks, turn) == [k \in 1..Len(hist) |-> IF k \in ks THEN turn ELSE hist[k]]

\* hist without the turns at the indices 1..n
WithoutFirst(hist, n) == SubSeq(hist, n + 1, Len(hist))

\* C7: the scan reads only the last 8 turns, newest first, and stops at the first
\* assistant turn that yields a kind: the resolved kind and skill are those of that turn,
\* and rewriting the turns outside the last 8 and those older than that turn (all of
\* them, or the most recent of them alone), or removing them, leaves kind, skill, DC
\* and AC as they are.
C7_ScanIsBounded ==
    FollowedUp =>
        \A t \in {TerminatingTurn(history)} :
        \A ignored \in {IgnoredTurns(history, t)} :
            /\ IF t = 0
               THEN last_kind = "none" /\ last_skill = <<>>
               ELSE /\ last_kind = CuesOf[history[t].content].kind
                    /\ last_skill = CuesOf[history[t].content].skill
            /\ \A turn \in TurnChoices :
                  DefaultTargets(ScanHistory(Rewritten(history, ignored, turn))) = ResolvedContext
            /\ \A k \in {j \in ignored : j + 1 \notin ignored} : \A turn \in TurnChoices :
                  DefaultTargets(ScanHistory([history EXCEPT ![k] = turn])) = ResolvedContext
            /\ DefaultTargets(ScanHistory(WithoutFirst(history, Cardinality(ignored)))) = ResolvedContext

\* a history of 9 turns whose oldest turn, outside the last 8, asks for an attack roll
\* and mentions no target, while a later turn asked for a check with a DC
C7_Witness ==
    /\ FollowedUp
    /\ Len(history) = 9
    /\ history[1].role = "assistant"
    /\ CuesOf[history[1].content].kind = "attack"
    /\ TerminatingTurn(history) > 2
    /\ last_kind = "check"
    /\ last_dc = 14

\* the text ends with the word
EndsWith(s, word) == Len(s) >= Len(word) /\ SubSeq(s, Len(s) - Len(word) + 1, Len(s)) = word

Word_success == <<"(", "s", "u", "c", "c", "e", "s", "s", ")", ".">>

Word_failure == <<"(", "f", "a", "i", "l", "u", "r", "e", ")", ".">>

Word_hit == <<"(", "h", "i", "t", ")", ".">>

Word_miss == <<"(", "m", "i", "s", "s", ")", ".">>

\* C8: success is decided by total >= target, a total equal to the target succeeding:
\* against the DC for a check or a save, against the AC for an attack, and the word
\* (success)/(failure) or (hit)/(miss) of the summary agrees with the verdict; a stealth
\* check with DC 14 succeeds with 16 and fails with 10.
C8_InclusiveComparison ==
    FollowedUp =>
        /\ last_kind \in {"check", "save"} =>
              /\ success_flag = "True" <=> result >= last_dc
              /\ success_flag = "False" <=> result < last_dc
              /\ EndsWith(summary, Word_success) <=> result >= last_dc
              /\ EndsWith(summary, Word_failure) <=> result < last_dc
        /\ last_kind = "attack" =>
              /\ success_flag = "True" <=> result >= last_ac
              /\ success_flag = "False" <=> result < last_ac
              /\ EndsWith(summary, Word_hit) <=> result >= last_ac
              /\ EndsWith(summary, Word_miss) <=> result < last_ac
        /\ (last_kind = "check" /\ last_skill = Skill_stealth /\ last_dc = 14) =>
              /\ result = 16 => success_flag = "True"
              /\ result = 10 => success_flag = "False"

\* a check whose total equals its DC
C8_Witness ==
    /\ FollowedUp
    /\ last_kind = "check"
    /\ last_dc = 10
    /\ result = 10
    /\ success_flag = "True"
    /\ EndsWith(summary, Word_success)

Text_initiative_noted == <<"I", "n", "i", "t", "i", "a", "t", "i", "v", "e", " ", "n", "o", "t", "e", "d",
      ":", " ">>

Text_roll_recorded == <<"R", "o", "l", "l", " ", "t", "o", "t", "a", "l", " ", "r", "e", "c", "o", "r",
      "d", "e", "d", ":", " ">>

\* C9: the verdict is null exactly when the resolved kind is initiative or none; the
\* summary is then "Initiative noted: {total}." or "Roll total recorded: {total}.";
\* a check, a save and an attack always get the verdict true or false.
C9_NullVerdict ==
    FollowedUp =>
        /\ success_flag = "None" <=> last_kind \in {"initiative", "none"}
        /\ last_kind = "initiative" => summary = Text_initiative_noted \o str(result) \o <<".">>
        /\ last_kind = "none" => summary = Text_roll_recorded \o str(result) \o <<".">>
        /\ last_kind \in {"check", "save", "attack"} => success_flag \in {"True", "False"}

\* an initiative turn that also states a DC the total does not reach: no verdict
C9_Witness ==
    /\ FollowedUp
    /\ last_kind = "initiative"
    /\ last_dc = 11
    /\ result = 10
    /\ success_flag = "None"

\* the assistant turns the scan of hist reads: those of the last 8 turns that are not
\* older than the terminating turn
ReadTurns(hist) ==
    {k \in WindowStart(hist)..Len(hist) \ IgnoredTurns(hist, TerminatingTurn(hist)) :
        hist[k].role = "assistant"}

\* the DCs and the ACs that the turns read mention
DCsRead(hist) == {CuesOf[hist[k].content].dc : k \in ReadTurns(hist)} \ {Null}

ACsRead(hist) == {CuesOf[hist[k].content].ac : k \in ReadTurns(hist)} \ {Null}

\* C10: with no DC read a check is judged against 12 and a save against 13, with no AC
\* read an attack is judged against 13; an attack is judged against the AC whatever DC
\* was read, a check and a save against the DC whatever AC was read.
C10_DefaultTargets ==
    FollowedUp =>
        \A dcs \in {DCsRead(history)} : \A acs \in {ACsRead(history)} :
            /\ (last_kind = "check" /\ dcs = {}) =>
                  last_dc = 12 /\ success_flag = Bool(result >= 12)
            /\ (last_kind = "save" /\ dcs = {}) =>
                  last_dc = 13 /\ success_flag = Bool(result >= 13)
            /\ (last_kind = "attack" /\ acs = {}) =>
                  last_ac = 13 /\ success_flag = Bool(result >= 13)
            /\ (last_kind = "attack" /\ acs # {}) =>
                  last_ac \in acs /\ success_flag = Bool(result >= last_ac)
            /\ (last_kind \in {"check", "save"} /\ dcs # {}) =>
                  last_dc \in dcs /\ success_flag = Bool(result >= last_dc)

\* a save with no DC read, judged against the default 13 that the total 13 reaches
C10_Witness ==
    /\ FollowedUp
    /\ last_kind = "save"
    /\ DCsRead(history) = {}
    /\ last_dc = 13
    /\ result = 13
    /\ success_flag = "True"

(***************************************************************************)
(* Claims about build_lettered_options, checked under SpecMenu             *)
(***************************************************************************)
\* the entries of a menu text: its lines after the newline it starts with
MenuEntries(txt) == IF txt # <<>> /\ txt[1] = "\n" THEN splitlines(Tail(txt)) ELSE <<>>

\* C11: for every kind, skill and success, build_lettered_options returns exactly 3
\* entries that start with "A. ", "B. ", "C. " in this order; a kind that is none of
\* check, save, attack and initiative gets the generic exploration menu.
C11_ThreeLetteredEntries ==
    pc = "built" =>
        \A entries \in {MenuEntries(text)} :
            /\ Len(entries) = 3
            /\ \A k \in 1..3 : StartsWith(entries[k], 1, <<Letters[k], ".", " ">>)
            /\ last_kind \notin {"check", "save", "attack", "initiative"} =>
                  entries = Menu_exploration
            /\ (last_kind = "check" /\ last_skill = Skill_persuasion /\ success_flag = "True") =>
                  entries = Menu_social_success

\* a kind the function does not know, with a skill and a verdict it would know
C11_Witness ==
    /\ pc = "built"
    /\ last_kind = "damage"
    /\ last_skill = Skill_persuasion
    /\ success_flag = "True"
    /\ MenuEntries(text) = Menu_exploration

(***************************************************************************)
(* Claims about a roll reported after a skill-check request, checked       *)
(* under SpecCheck                                                         *)
(***************************************************************************)
\* the menu of the group a skill belongs to, for a verdict
GroupMenu(skill, passed) ==
    IF skill \in {Skill_deception, Skill_persuasion, Skill_intimidation}
    THEN (IF passed THEN Menu_social_success ELSE Menu_social_failure)
    ELSE IF skill = Skill_stealth
    THEN (IF passed THEN Menu_stealth_success ELSE Menu_stealth_failure)
    ELSE IF skill \in {Skill_athletics, Skill_acrobatics}
    THEN (IF passed THEN Menu_physical_success ELSE Menu_physical_failure)
    ELSE (IF passed THEN Menu_check_success ELSE Menu_check_failure)

\* the summary of a check of a skill with a total against a DC
CheckSummary(skill, total, dc) ==
    Text_your \o skill \o <<" ", "c", "h", "e", "c", "k", " ", "i", "s", " ">> \o str(total) \o <<" ">>
        \o (IF total >= dc THEN Word_success ELSE Word_failure)

Text_stealth_request == <<"M", "a", "k", "e", " ", "a", " ", "S", "t", "e", "a", "l", "t", "h", " ", "c",
      "h", "e", "c", "k", ",", " ", "D", "C", " ", "1", "4", ".">>

Text_I_rolled_16 == <<"I", " ", "r", "o", "l", "l", "e", "d", " ", "1", "6">>

Text_stealth_16_success == <<"Y", "o", "u", "r", " ", "s", "t", "e", "a", "l", "t", "h", " ", "c", "h", "e",
      "c", "k", " ", "i", "s", " ", "1", "6", " ", "(", "s", "u", "c", "c", "e", "s",
      "s", ")", ".">>

\* the text of a follow-up is its summary, the question and the menu
FollowupMenu == MenuEntries(SubSeq(text, Len(summary) + Len(Text_what_next) + 1, Len(text)))

\* C12: after the one assistant turn "Make a Stealth check, DC 14." the message
\* "I rolled 16" is answered with the summary "Your stealth check is 16 (success)."
\* and the stealth/success menu; in general a total reported after a request for
\* a check of a skill with a stated DC is answered with the summary for that
\* skill and the menu of that skill's group and verdict.
C12_CheckFollowup ==
    (pc = "responded" /\ result # Null) =>
        /\ via = "followup"
        /\ \E i \in 1..Len(skill_list), dc \in CheckDCs :
              /\ history[1].content = CheckRequest(skill_list[i], dc)
              /\ summary = CheckSummary(skill_list[i], result, dc)
              /\ FollowupMenu = GroupMenu(skill_list[i], result >= dc)
        /\ (history[1].content = Text_stealth_request /\ message = Text_I_rolled_16) =>
              /\ summary = Text_stealth_16_success
              /\ FollowupMenu = Menu_stealth_success

\* the scenario of the claim has been answered
C12_Witness ==
    /\ pc = "responded"
    /\ Len(history) = 1
    /\ history[1] = [role |-> "assistant", content |-> Text_stealth_request]
    /\ message = Text_I_rolled_16
    /\ summary = Text_stealth_16_success
    /\ FollowupMenu = Menu_stealth_success

(***************************************************************************)
(* Claims about the requests for a new roll, checked under SpecClassify    *)
(***************************************************************************)
\* the requests of type "check" among the roll requests of the response
CheckEntries == {k \in 1..Len(roll_requests) : roll_requests[k].type = "check"}

Word_Stealth == <<"S", "t", "e", "a", "l", "t", "h">>

\* C13: a message that reports no roll, names no skill, has a word that stands
\* for stealth and states "DC n" is answered with exactly one request of type
\* check, whose purpose mentions "Stealth" and whose dc is n, so the response has
\* at least one request of type check, attack, initiative or save.
C13_StealthSynonymCheck ==
    (/\ pc = "responded"
     /\ pieces # <<>>
     /\ pieces[1] \in StealthOpenings
     /\ pieces[2] # <<>>
     /\ pieces[3] \in OtherEndings) =>
        /\ Cardinality(CheckEntries) = 1
        /\ \A k \in CheckEntries :
              /\ In(Word_Stealth, roll_requests[k].purpose)
              /\ \E n \in MessageDCs :
                    pieces[2] \in DCPhrases(n) /\ roll_requests[k].dc = n
        /\ \E k \in 1..Len(roll_requests) :
              roll_requests[k].type \in {"check", "attack", "initiative", "save"}

Text_sneak_past_the_guards == <<"I", " ", "t", "r", "y", " ", "t", "o", " ", "s", "n", "e", "a", "k", " ", "p",
      "a", "s", "t", " ", "t", "h", "e", " ", "g", "u", "a", "r", "d", "s", " ", "(",
      "D", "C", " ", "1", "4", ")">>

\* the message of the claim has been answered without an API key
C13_Witness ==
    /\ pc = "responded"
    /\ message = Text_sneak_past_the_guards
    /\ ~env.api_key
    /\ Len(roll_requests) = 1
    /\ roll_requests[1].type = "check"
    /\ roll_requests[1].dc = 14

(***************************************************************************)
(* Claims about the path a response of /dm/respond takes, checked under    *)
(* Spec                                                                    *)
(***************************************************************************)
Text_I_hide == <<"I", " ", "h", "i", "d", "e">>

\* C14 as stated: a response given when the scanned history has no turn that
\* yields a kind is never a roll outcome, also when the message reports a total.
C14_ClassifierWhenNoPendingRoll ==
    (pc = "responded" /\ TerminatingTurn(history) = 0) => via # "followup"

\* C14: what decides between the two paths is the message, not the history. A
\* message that reports no total is answered by the classifier path (the
\* heuristic or the model) with no roll outcome, whatever the history asks for; a
\* message that reports a total is answered with a roll outcome and no roll
\* request, and when no scanned turn yields a kind that outcome is "Roll total
\* recorded: n." with no verdict.
C14_BranchOnReportedTotal ==
    pc = "responded" =>
        /\ message = Text_I_hide =>
              /\ via \in {"heuristic", "model"}
              /\ summary = <<>>
              /\ success_flag = "None"
              /\ Len(roll_requests) = 1
        /\ message # Text_I_hide =>
              /\ via = "followup"
              /\ roll_requests = <<>>
              /\ TerminatingTurn(history) = 0 =>
                    /\ summary = Text_roll_recorded \o str(result) \o <<".">>
                    /\ success_flag = "None"
                    /\ FollowupMenu = Menu_exploration

\* a total reported after turns none of which asks for a roll
C14_Witness ==
    /\ pc = "responded"
    /\ Len(history) >= 2
    /\ TerminatingTurn(history) = 0
    /\ result = 16
    /\ via = "followup"

(***************************************************************************)
(* Claims about the upstream model and the local fallback, checked under   *)
(* SpecClassify                                                            *)
(***************************************************************************)
\* an API key is set and the call of one of the models tried answers 200
ModelAvailable ==
    /\ env.api_key
    /\ \E k \in 1..(IF env.requested_model = "" THEN 1 ELSE 2) : env.outcomes[k] = "200"

Text_I_rolled_12_sneaking == <<"I", " ", "r", "o", "l", "l", "e", "d", " ", "1", "2", " ", "s", "n", "e", "a",
      "k", "i", "n", "g">>

\* C15 as stated: whenever an API key is set and a model call succeeds, the
\* response comes from the model, for every message.
C15_ModelWheneverAvailable ==
    (pc = "responded" /\ ModelAvailable) => via = "model"

\* C15: a message that reports a roll total is answered by the local roll
\* follow-up, whether or not a model is available; any other message is answered
\* with the model's text when an API key is set and one of the models tried
\* answers 200, and by the local heuristic only when no key is set or every
\* attempt failed.
C15_ModelUnlessRollReported ==
    (pc = "responded" /\ pieces # <<>>) =>
        /\ pieces[1] = Text_I_rolled_12_sneaking => via = "followup"
        /\ pieces[1] # Text_I_rolled_12_sneaking =>
              /\ via = (IF ModelAvailable THEN "model" ELSE "heuristic")
              /\ via = "model" =>
                    SubSeq(text, 1, Len(rstrip(env.content))) = rstrip(env.content)

\* a reported total answered locally although the first model tried would answer
C15_Witness ==
    /\ pc = "responded"
    /\ pieces # <<>>
    /\ pieces[1] = Text_I_rolled_12_sneaking
    /\ env.api_key
    /\ env.outcomes[1] = "200"
    /\ via = "followup"
    /\ result = 12

(***************************************************************************)
(* Claims about the responses of /dm/options, checked under SpecOptions    *)
(***************************************************************************)
Text_Approach_cautiously == <<"*", "*", "A", "p", "p", "r", "o", "a", "c", "h", " ", "c", "a", "u", "t", "i",
      "o", "u", "s", "l", "y", "*", "*">>

\* C16: every response of /dm/options is successful and carries exactly 3 options,
\* each starting with one of the letters A, B, C followed by ". ": without an API
\* key and when the call of the model fails these are the generic options, and
\* otherwise they are made from whatever text the model answered with.
C16_ThreeLetteredOptions ==
    pc = "responded" =>
        /\ status = 200
        /\ Len(options) = 3
        /\ \A i \in 1..3 :
              \E k \in 1..3 : StartsWith(options[i], 1, <<Letters[k], ".", " ">>)
        /\ (~env.api_key \/ env.outcome # "200") =>
              /\ \A i \in 1..3 : options[i][1] = Letters[i]
              /\ StartsWith(options[1], 4, Text_Approach_cautiously)

\* the model answered with a text of which one line is kept, and two entries
\* were padded
C16_Witness ==
    /\ pc = "responded"
    /\ env.api_key
    /\ env.outcome = "200"
    /\ Len(StrippedLines(raw)) = 3
    /\ Len(ValidLines(raw)) = 1
    /\ Len(options) = 3

(***************************************************************************)
(* Claims about the text of heuristic_response, checked under SpecClassify *)
(***************************************************************************)
\* " (DC n)" for a request with a dc, else " (AC n)" for one with an ac, else nothing
TargetText(rr) ==
    IF rr.dc # Null THEN <<" ", "(", "D", "C", " ">> \o str(rr.dc) \o <<")">>
    ELSE IF rr.ac # Null THEN <<" ", "(", "A", "C", " ">> \o str(rr.ac) \o <<")">>
    ELSE <<>>

Text_scene_awaits == <<"T", "h", "e", " ", "s", "c", "e", "n", "e", " ", "a", "w", "a", "i", "t", "s",
      " ", "y", "o", "u", "r", " ", "a", "c", "t", "i", "o", "n", ".", " ", "D", "e",
      "s", "c", "r", "i", "b", "e", " ", "w", "h", "a", "t", " ", "y", "o", "u", " ",
      "d", "o", " ", "n", "e", "x", "t", "-", "I", "'", "l", "l", " ", "r", "e", "s",
      "p", "o", "n", "d", " ", "w", "i", "t", "h", " ", "c", "l", "e", "a", "r", " ",
      "c", "o", "n", "s", "e", "q", "u", "e", "n", "c", "e", "s", " ", "a", "n", "d",
      " ", "o", "p", "t", "i", "o", "n", "s", ".">>

Text_open_door_DC14_attack == <<"I", " ", "o", "p", "e", "n", " ", "t", "h", "e", " ", "d", "o", "o", "r", " ",
      "(", "D", "C", " ", "1", "4", ")", " ", "a", "n", "d", " ", "a", "t", "t", "a",
      "c", "k">>

Text_please_roll_attack_AC13 == <<"P", "l", "e", "a", "s", "e", " ", "r", "o", "l", "l", " ", "A", "t", "t", "a",
      "c", "k", " ", "r", "o", "l", "l", " ", "(", "A", "C", " ", "1", "3", ")", ".">>

Text_open_door_initiative == <<"I", " ", "o", "p", "e", "n", " ", "t", "h", "e", " ", "d", "o", "o", "r", " ",
      "b", "e", "f", "o", "r", "e", " ", "i", "n", "i", "t", "i", "a", "t", "i", "v",
      "e">>

Text_please_roll_initiative == <<"P", "l", "e", "a", "s", "e", " ", "r", "o", "l", "l", " ", "R", "o", "l", "l",
      " ", "i", "n", "i", "t", "i", "a", "t", "i", "v", "e", ".">>

\* C17: the text of the heuristic is "Please roll {purpose}{target}." made from the
\* first request alone when there is one, the target being " (DC n)" if that
\* request has a dc, else " (AC n)" if it has an ac, else empty; with no request
\* it is the fixed sentence, followed by the exploration menu only if
\* INLINE_OPTIONS is enabled.
C17_HeuristicText ==
    (pc = "responded" /\ via = "heuristic") =>
        /\ Len(roll_requests) > 0 =>
              text = <<"P", "l", "e", "a", "s", "e", " ", "r", "o", "l", "l", " ">> \o roll_requests[1].purpose
                        \o TargetText(roll_requests[1]) \o <<".">>
        /\ Len(roll_requests) = 0 =>
              /\ SubSeq(text, 1, Len(Text_scene_awaits)) = Text_scene_awaits
              /\ IF env.inline
                 THEN MenuEntries(SubSeq(text, Len(Text_scene_awaits) + 1, Len(text)))
                          = Menu_exploration
                 ELSE text = Text_scene_awaits
        /\ message = Text_open_door_DC14_attack => text = Text_please_roll_attack_AC13
        /\ message = Text_open_door_initiative => text = Text_please_roll_initiative

\* the heuristic built two requests, the first with an ac and the second with a dc
C17_Witness ==
    /\ pc = "responded"
    /\ via = "heuristic"
    /\ Len(roll_requests) = 2
    /\ roll_requests[1].type = "attack"
    /\ roll_requests[2].dc = 14
    /\ text = Text_please_roll_attack_AC13

(***************************************************************************)
(* Claims about the targets and the kind the scan keeps, checked under     *)
(* Spec                                                                    *)
(***************************************************************************)
\* the turns read that mention a DC, and those that mention an AC
DCTurns(hist) == {k \in ReadTurns(hist) : CuesOf[hist[k].content].dc # Null}

ACTurns(hist) == {k \in ReadTurns(hist) : CuesOf[hist[k].content].ac # Null}

\* C19: every assistant turn read, up to and including the turn that ends the
\* scan, overwrites the DC (the AC) with the one it mentions, so the DC (the AC)
\* kept is that of the oldest turn read that mentions one, whether or not that
\* turn yields the kind; a DC or AC that only a more recent turn without a kind
\* mentions is kept when the turn that ends the scan mentions none.
C19_OldestMentionWins ==
    FollowedUp =>
        /\ \A ks \in {DCTurns(history)} :
              ks # {} => last_dc = CuesOf[history[Least(ks)].content].dc
        /\ \A ks \in {ACTurns(history)} :
              ks # {} => last_ac = CuesOf[history[Least(ks)].content].ac

\* the turn that ends the scan states DC 14, a more recent turn without a kind
\* states DC 10, and DC 14 is kept
C19_Witness ==
    /\ FollowedUp
    /\ TerminatingTurn(history) # 0
    /\ Cardinality(DCTurns(history)) = 2
    /\ history[TerminatingTurn(history)].content = Text_stealth_request
    /\ last_dc = 14
    /\ last_ac = 12

Text_initiative_then_stealth == <<"R", "o", "l", "l", " ", "i", "n", "i", "t", "i", "a", "t", "i", "v", "e", ",",
      " ", "t", "h", "e", "n", " ", "m", "a", "k", "e", " ", "a", " ", "s", "t", "e",
      "a", "l", "t", "h", " ", "c", "h", "e", "c", "k", " ", "(", "D", "C", " ", "1",
      "1", ")", ".">>

Text_save_or_attack == <<"M", "a", "k", "e", " ", "a", " ", "D", "e", "x", "t", "e", "r", "i", "t", "y",
      " ", "s", "a", "v", "i", "n", "g", " ", "t", "h", "r", "o", "w", " ", "o", "r",
      " ", "a", "n", " ", "a", "t", "t", "a", "c", "k", " ", "r", "o", "l", "l", ".">>

Text_athletics_save_perception == <<"M", "a", "k", "e", " ", "a", "n", " ", "a", "t", "h", "l", "e", "t", "i", "c",
      "s", " ", "c", "h", "e", "c", "k", ",", " ", "a", " ", "w", "i", "s", "d", "o",
      "m", " ", "s", "a", "v", "i", "n", "g", " ", "t", "h", "r", "o", "w", " ", "o",
      "r", " ", "r", "o", "l", "l", " ", "f", "o", "r", " ", "p", "e", "r", "c", "e",
      "p", "t", "i", "o", "n", ".">>

\* the cues of a turn, each read on its own
HasInitiativeCue(c) == In(Phrase_initiative, c) \/ In(Phrase_roll_initiative, c)

HasCheckCue(c) == FirstSkill(c) # 0

HasSaveCue(c) == FirstSave(c) # 0

HasAttackCue(c) ==
    In(Phrase_attack_roll, c) \/ In(Phrase_make_an_attack, c) \/ In(Phrase_please_roll_attack, c)

\* the cues of each content an assistant turn may have
KindCuesOf ==
    [turn \in AssistantContents |->
        [initiative |-> HasInitiativeCue(lower(turn)), check |-> HasCheckCue(lower(turn)),
         save |-> HasSaveCue(lower(turn)), attack |-> HasAttackCue(lower(turn))]]

\* C20: within the turn that ends the scan an initiative cue wins over every other
\* cue, a skill-check phrase over a saving-throw phrase, and a saving-throw
\* phrase over an attack-roll phrase; the DC and the AC that turn mentions are
\* kept.
C20_KindPriority ==
    (FollowedUp /\ TerminatingTurn(history) # 0) =>
        \A turn \in {history[TerminatingTurn(history)].content} :
        \A c \in {KindCuesOf[turn]} :
            /\ c.initiative => last_kind = "initiative"
            /\ (~c.initiative /\ c.check) => last_kind = "check"
            /\ (~c.initiative /\ ~c.check /\ c.save) => last_kind = "save"
            /\ (~c.initiative /\ ~c.check /\ ~c.save /\ c.attack) => last_kind = "attack"
            /\ turn = Text_initiative_then_stealth =>
                  (c.initiative /\ c.check /\ last_kind = "initiative" /\ last_dc = 11)
            /\ turn = Text_save_or_attack => (c.save /\ c.attack /\ last_kind = "save")
            /\ turn = Text_athletics_save_perception =>
                  (c.check /\ c.save /\ last_kind = "check")
            /\ CuesOf[turn].dc # Null => last_dc = CuesOf[turn].dc
            /\ CuesOf[turn].ac # Null => last_ac = CuesOf[turn].ac

\* a turn with an initiative cue, a skill-check phrase and a DC ended the scan
C20_Witness ==
    /\ FollowedUp
    /\ TerminatingTurn(history) # 0
    /\ history[TerminatingTurn(history)].content = Text_initiative_then_stealth
    /\ last_kind = "initiative"
    /\ last_dc = 11

(***************************************************************************)
(* Claims about requests served at the same time, checked under            *)
(* SpecConcurrent                                                          *)
(***************************************************************************)
\* the response to a request that is served alone, without an API key
ResponseAlone(msg, hist, inline) ==
    IF RollResult(msg) = Null
    THEN heuristic_response(msg, inline)
    ELSE FollowupFor(DefaultTargets(ScanHistory(hist)), RollResult(msg))

\* C18: without an API key the response to a request is the one it gets when it is
\* served alone, however the steps of the requests in flight interleave, and
\* the request, its history included, is as the caller sent it.
C18_RequestsAreIndependent ==
    \A r \in Requests :
        /\ calls[r].req = calls[r].sent
        /\ calls[r].pc = "done" =>
              calls[r].response
                  = ResponseAlone(calls[r].sent.message, calls[r].sent.history, env.inline)

\* request 1 has its response, a check judged against DC 14, while request 2, sent
\* with another message and another history, is in the middle of its scan
C18_Witness ==
    /\ calls # <<>>
    /\ calls[1].pc = "done"
    /\ calls[1].sent.message = Text_I_rolled_16
    /\ frames[1].last_dc = 14
    /\ calls[2].pc = "scan"
    /\ calls[2].k = 2
    /\ calls[2].sent.history # calls[1].sent.history
    /\ frames[2].last_dc = 10

(***************************************************************************)
(* Claims about a turn that names several skills, checked under SpecPairs  *)
(***************************************************************************)
\* C21: when one assistant turn has check phrases for two skills, the skill
\* resolved is the one that comes first in the vocabulary of 18 skills, whichever
\* of the two the text names first.
C21_VocabularyOrder ==
    FollowedUp =>
        \E i, j \in 1..Len(skill_list) :
            /\ i # j
            /\ history[1].content = PairRequest(i, j)
            /\ last_kind = "check"
            /\ last_skill = skill_list[IF i < j THEN i ELSE j]

Text_athletics_or_stealth == <<"M", "a", "k", "e", " ", "a", " ", "A", "t", "h", "l", "e", "t", "i", "c", "s",
      " ", "c", "h", "e", "c", "k", " ", "o", "r", " ", "r", "o", "l", "l", " ", "f",
      "o", "r", " ", "s", "t", "e", "a", "l", "t", "h", ".">>

\* the text names athletics before stealth, and stealth is resolved
C21_Witness ==
    /\ FollowedUp
    /\ history[1].content = Text_athletics_or_stealth
    /\ last_kind = "check"
    /\ last_skill = Skill_stealth
    /\ last_dc = 12

(***************************************************************************)
(* Claims about the list of roll requests, checked under SpecClassify      *)
(***************************************************************************)
Text_stealthily == <<" ", "s", "t", "e", "a", "l", "t", "h", "i", "l", "y">>

Text_with_a_perception_check == <<" ", "w", "i", "t", "h", " ", "a", " ", "p", "e", "r", "c", "e", "p", "t", "i",
      "o", "n", " ", "c", "h", "e", "c", "k">>

Text_using_perception_then_stealth == <<" ", "u", "s", "i", "n", "g", " ", "p", "e", "r", "c", "e", "p", "t", "i", "o",
      "n", " ", "t", "h", "e", "n", " ", "s", "t", "e", "a", "l", "t", "h">>

Text_and_check_the_lock == <<" ", "a", "n", "d", " ", "c", "h", "e", "c", "k", " ", "t", "h", "e", " ", "l",
      "o", "c", "k">>

Purpose_Stealth_check == <<"S", "t", "e", "a", "l", "t", "h", " ", "c", "h", "e", "c", "k">>

Purpose_Perception_check == <<"P", "e", "r", "c", "e", "p", "t", "i", "o", "n", " ", "c", "h", "e", "c", "k">>

\* the purpose of the check a composed message asks for, <<>> when it asks for none
ExpectedCheckPurpose(opening, ending) ==
    IF ending \in {Text_stealthily, Text_using_perception_then_stealth}
    THEN Purpose_Stealth_check
    ELSE IF ending = Text_with_a_perception_check THEN Purpose_Perception_check
    ELSE IF opening \in StealthOpenings THEN Purpose_Stealth_check
    ELSE IF ending = Text_and_check_the_lock THEN Purpose_ability_check
    ELSE <<>>

\* the message written reports no roll total, so the classifier answers it
Classified == pc = "responded" /\ pieces # <<>> /\ result = Null

\* C22: the classifier emits at most one check request: for the first skill of the
\* vocabulary that the message names, even when a word of the message stands for
\* another skill; else for the first skill of the synonym table one of whose
\* words is in the message; else, with the word "check" in the message, the
\* generic "Ability check"; else none.
C22_OneCheckByPriority ==
    Classified =>
        \A purpose \in {ExpectedCheckPurpose(pieces[1], pieces[3])} :
            /\ Cardinality(CheckEntries) <= 1
            /\ purpose = <<>> => CheckEntries = {}
            /\ purpose # <<>> =>
                  \E k \in CheckEntries : roll_requests[k].purpose = purpose

\* a word for stealth in the message, and the name of another skill: the check is
\* for the skill named
C22_Witness ==
    /\ Classified
    /\ pieces[1] \in StealthOpenings
    /\ pieces[3] = Text_with_a_perception_check
    /\ Cardinality(CheckEntries) = 1
    /\ \A k \in CheckEntries : roll_requests[k].purpose = Purpose_Perception_check

Text_to_save_him == <<" ", "t", "o", " ", "s", "a", "v", "e", " ", "h", "i", "m">>

Text_attack_initiative_save == <<" ", "t", "h", "e", "n", " ", "a", "t", "t", "a", "c", "k", " ", "b", "e", "f",
      "o", "r", "e", " ", "i", "n", "i", "t", "i", "a", "t", "i", "v", "e", " ", "t",
      "o", " ", "s", "a", "v", "e", " ", "h", "i", "m">>

\* the types of the roll requests of the response, in their order
RequestTypes == [k \in 1..Len(roll_requests) |-> roll_requests[k].type]

\* the requests of the response that are not saving throws
NotSaves == SelectSeq(roll_requests, LAMBDA rr : rr.type # "save")

\* C23: a message with the word "save" gets a saving-throw request at the end of
\* the list, whatever initiative, attack and check requests the list holds, and
\* those requests are the ones the message gets without its ending " to save
\* him"; a message without the word gets none.
C23_SaveIsAdditive ==
    Classified =>
        /\ pieces[3] \in {Text_to_save_him, Text_attack_initiative_save} =>
              /\ roll_requests # <<>>
              /\ roll_requests[Len(roll_requests)].type = "save"
              /\ roll_requests[Len(roll_requests)].purpose = Purpose_saving_throw
              /\ Len(NotSaves) = Len(roll_requests) - 1
        /\ pieces[3] \notin {Text_to_save_him, Text_attack_initiative_save} =>
              NotSaves = roll_requests
        /\ pieces[3] = Text_to_save_him =>
              /\ pieces[1] \in StealthOpenings => RequestTypes = <<"check", "save">>
              /\ pieces[1] \notin StealthOpenings => RequestTypes = <<"save">>
        /\ pieces[3] = Text_attack_initiative_save =>
              /\ pieces[1] \in StealthOpenings =>
                    RequestTypes = <<"initiative", "attack", "check", "save">>
              /\ pieces[1] \notin StealthOpenings =>
                    RequestTypes = <<"initiative", "attack", "save">>

\* initiative, attack and check requests, and the saving throw after them
C23_Witness ==
    /\ Classified
    /\ pieces[3] = Text_attack_initiative_save
    /\ Len(roll_requests) = 4
    /\ roll_requests[3].type = "check"
    /\ roll_requests[4].type = "save"

\* the DC a composed message states in its second piece, Null when it states none
StatedDC(target) ==
    IF target = <<>> THEN Null ELSE CHOOSE n \in MessageDCs : target \in DCPhrases(n)

\* C24: every check and every save request of one response carries the DC the
\* message states, Null when the message states none; an attack request carries
\* ac = 13 and no dc; an initiative request carries neither.
C24_OneDCForChecksAndSaves ==
    Classified =>
        \A n \in {StatedDC(pieces[2])} :
            \A k \in 1..Len(roll_requests) :
                /\ roll_requests[k].type \in {"initiative", "attack", "check", "save"}
                /\ roll_requests[k].type \in {"check", "save"} =>
                      roll_requests[k].dc = n /\ roll_requests[k].ac = Null
                /\ roll_requests[k].type = "attack" =>
                      roll_requests[k].ac = 13 /\ roll_requests[k].dc = Null
                /\ roll_requests[k].type = "initiative" =>
                      roll_requests[k].ac = Null /\ roll_requests[k].dc = Null

\* a check and a save with the stated DC 14 beside an attack with AC 13
C24_Witness ==
    /\ Classified
    /\ pieces[2] \in DCPhrases(14)
    /\ Len(roll_requests) = 4
    /\ roll_requests[1].type = "initiative" /\ roll_requests[1].dc = Null
    /\ roll_requests[2].type = "attack" /\ roll_requests[2].ac = 13
    /\ roll_requests[3].type = "check" /\ roll_requests[3].dc = 14
    /\ roll_requests[4].type = "save" /\ roll_requests[4].dc = 14

\* the order in which the classifier appends the types
TypeOrder == <<"initiative", "attack", "check", "save">>

\* the place of a type in TypeOrder
TypeRank(type) == CHOOSE i \in 1..Len(TypeOrder) : TypeOrder[i] = type

\* C27: the requests of one response are in the order initiative, attack,
\* check, save with at most one request of each type, so at most four; the
\* text of the heuristic asks for the initiative roll whenever "initiative" is
\* in the message, whatever else the message names.
C27_OneOfEachTypeInOrder ==
    Classified =>
        /\ Len(roll_requests) <= 4
        /\ \A k \in 1..Len(roll_requests) : roll_requests[k].type \in {TypeOrder[i] : i \in 1..Len(TypeOrder)}
        /\ \A j, k \in 1..Len(roll_requests) :
              j < k => TypeRank(roll_requests[j].type) < TypeRank(roll_requests[k].type)
        /\ (via = "heuristic" /\ In(Word_initiative, lower(message))) =>
              /\ roll_requests[1].type = "initiative"
              /\ text = Text_please_roll_initiative

\* the heuristic found all four types and its text asks for the initiative roll
C27_Witness ==
    /\ Classified
    /\ via = "heuristic"
    /\ RequestTypes = TypeOrder
    /\ pieces[2] \in DCPhrases(15)
    /\ text = Text_please_roll_initiative

\* C28: the roll requests attached to the answer of the model are the ones
\* heuristic_response builds for the same message: same entries, same order,
\* same dc and ac.
C28_ModelRequestsAreHeuristicRequests ==
    (Classified /\ via = "model") =>
        roll_requests = HeuristicRollRequests(lower(message))

\* the answer of the model carries an attack request and a check found by a synonym
C28_Witness ==
    /\ Classified
    /\ via = "model"
    /\ pieces[1] \in StealthOpenings
    /\ pieces[2] \in DCPhrases(9)
    /\ roll_requests = <<RollRequest("attack", "1d20+5", Purpose_attack_roll, Null, 13),
                         RollRequest("check", "1d20+3", Purpose_Stealth_check, 9, Null)>>
    /\ roll_requests = HeuristicRollRequests(lower(message))

(***************************************************************************)
(* Claims about the lines normalize_options keeps, checked under           *)
(* SpecOptions                                                             *)
(***************************************************************************)
\* the lines of LineChoices that match ^([A-C])\.\s*(.*)$ once trimmed, each with
\* "{letter}. **{head}**, {tail}" for its body split on the first comma, or
\* "{letter}. **{body}**" for a body without a comma
Reformatted ==
    { << <<"A", ".", " ", "S", "n", "e", "a", "k", " ", "a", "w", "a", "y">>,
         <<"A", ".", " ", "*", "*", "S", "n", "e", "a", "k", " ", "a", "w", "a", "y", "*",
      "*">> >>,
      << <<"B", ".", " ", "F", "i", "g", "h", "t">>,
         <<"B", ".", " ", "*", "*", "F", "i", "g", "h", "t", "*", "*">> >>,
      << <<"C", ".", " ">>,
         <<"C", ".", " ", "*", "*", "*", "*">> >>,
      << <<" ", "A", ".", " ", "x", ",", "y", ",", " ", "z", " ">>,
         <<"A", ".", " ", "*", "*", "x", "*", "*", ",", " ", "y", ",", " ", "z">> >>,
      << <<"B", ".", " ", "*", "*", "H", "i", "d", "e", "*", "*", ",", " ", "w", "a", "i",
      "t">>,
         <<"B", ".", " ", "*", "*", "*", "*", "H", "i", "d", "e", "*", "*", "*", "*", ",",
      " ", "w", "a", "i", "t">> >>,
      << <<"C", ".", ",", "y">>,
         <<"C", ".", " ", "*", "*", "*", "*", ",", " ", "y">> >> }

\* the entry of a kept line
EntryOf(ln) == (CHOOSE p \in Reformatted : p[1] = ln)[2]

\* the lines of the text that are kept, in their order
KeptLines(txt) == SelectSeq(splitlines(txt), LAMBDA ln : \E p \in Reformatted : p[1] = ln)

Text_Sneak_away_Fight == <<"A", ".", " ", "S", "n", "e", "a", "k", " ", "a", "w", "a", "y", "\n", "B", ".",
      " ", "F", "i", "g", "h", "t">>

Entry_A_Sneak_away == <<"A", ".", " ", "*", "*", "S", "n", "e", "a", "k", " ", "a", "w", "a", "y", "*",
      "*">>

Entry_B_Fight == <<"B", ".", " ", "*", "*", "F", "i", "g", "h", "t", "*", "*">>

Entry_A_x_y_z == <<"A", ".", " ", "*", "*", "x", "*", "*", ",", " ", "y", ",", " ", "z">>

Text_Run_xyz_Fight == <<"D", ".", " ", "R", "u", "n", "\n", " ", "A", ".", " ", "x", ",", "y", ",", " ",
      "z", " ", "\n", "B", ".", " ", "F", "i", "g", "h", "t">>

\* C25: normalize_options keeps the non-empty lines that match
\* ^([A-C])\.\s*(.*)$ once trimmed and discards every other line; a kept line
\* becomes "{letter}. **{head}**, {tail}" with its body split on the first comma
\* only, or "{letter}. **{body}**" without a comma; "A. Sneak away\nB. Fight"
\* gives "A. **Sneak away**", "B. **Fight**" and the generic filler.
C25_KeptLinesReformatted ==
    pc = "normalized" =>
        \A kept \in {KeptLines(raw)} :
            /\ Len(picked) = 3
            /\ \A i \in 1..3 :
                  picked[i] = IF i <= Len(kept) THEN EntryOf(kept[i]) ELSE Filler(Letters[i])
            /\ raw = Text_Sneak_away_Fight =>
                  picked = <<Entry_A_Sneak_away, Entry_B_Fight, Filler("C")>>

\* a discarded line, a line with two commas and a line without a comma
C25_Witness ==
    /\ pc = "normalized"
    /\ raw = Text_Run_xyz_Fight
    /\ picked = <<Entry_A_x_y_z, Entry_B_Fight, Filler("C")>>

(***************************************************************************)
(* Claims about the skill of the resolved context, checked under Spec      *)
(***************************************************************************)
Text_Your_ability_check == <<"Y", "o", "u", "r", " ", "a", "b", "i", "l", "i", "t", "y", " ", "c", "h", "e",
      "c", "k">>

Text_Your_saving_throw == <<"Y", "o", "u", "r", " ", "s", "a", "v", "i", "n", "g", " ", "t", "h", "r", "o",
      "w">>

Text_Your_dexterity_throw_is == <<"Y", "o", "u", "r", " ", "d", "e", "x", "t", "e", "r", "i", "t", "y", " ", "t",
      "h", "r", "o", "w", " ", "i", "s", " ">>

\* C26: after a history scan the skill fits the kind: a check has one of the 18
\* skills of skill_list, a save one of the six abilities of saves, and an attack,
\* an initiative roll or no kind has no skill; so the summary never falls back on
\* "ability" or "saving" for a missing skill.
C26_SkillFitsKind ==
    FollowedUp =>
        /\ last_kind \in {"check", "save", "attack", "initiative", "none"}
        /\ last_kind = "check" => \E i \in 1..Len(skill_list) : last_skill = skill_list[i]
        /\ last_kind = "save" => \E i \in 1..Len(saves) : last_skill = saves[i]
        /\ last_kind \in {"attack", "initiative", "none"} => last_skill = <<>>
        /\ Len(skill_list) = 18
        /\ Len(saves) = 6
        /\ ~StartsWith(summary, 1, Text_Your_ability_check)
        /\ ~StartsWith(summary, 1, Text_Your_saving_throw)

\* a save found in the history, with its ability in the summary
C26_Witness ==
    /\ FollowedUp
    /\ last_kind = "save"
    /\ last_skill = saves[2]
    /\ StartsWith(summary, 1, Text_Your_dexterity_throw_is)

(***************************************************************************)
(* Claims about the turns of the player, checked under Spec                *)
(***************************************************************************)
\* the turns among the last 8 turns of hist that are not the assistant's
PlayerTurns(hist) == {k \in WindowStart(hist)..Len(hist) : hist[k].role # "assistant"}

\* turns that are not the assistant's, with a DC, an AC and the phrases of a roll request
OtherTurns ==
    { [role |-> "user", content |-> Text_initiative_then_stealth],
      [role |-> "system", content |-> Text_save_or_attack] }

\* hist without its turns that are not the assistant's
AssistantOnly(hist) == SelectSeq(hist, LAMBDA turn : turn.role = "assistant")

\* C30: the turns that are not the assistant's do not affect the resolved
\* context: with the same assistant turns among the last 8 turns, kind, skill,
\* DC and AC are the same when the player's turns among the last 8 are rewritten
\* (to turns with a DC, an AC or the phrases of a roll request), when they are
\* removed, and when one more is inserted at the end.
C30_PlayerTurnsIgnored ==
    FollowedUp =>
        /\ \A turn \in OtherTurns : \A players \in {PlayerTurns(history)} :
              /\ DefaultTargets(ScanHistory(Rewritten(history, players, turn)))
                    = ResolvedContext
              /\ (Len(history) < ScanWindow \/ history[WindowStart(history)].role # "assistant") =>
                    DefaultTargets(ScanHistory(Append(history, turn))) = ResolvedContext
        /\ Len(history) <= ScanWindow =>
              DefaultTargets(ScanHistory(AssistantOnly(history))) = ResolvedContext

\* the most recent turn is the player's, with a DC, an AC and a request for
\* initiative, and the context is that of the assistant's older request
C30_Witness ==
    /\ FollowedUp
    /\ Len(history) >= 3
    /\ history[Len(history)].role = "user"
    /\ CuesOf[history[Len(history)].content].kind = "initiative"
    /\ CuesOf[history[Len(history)].content].dc = 5
    /\ history[Len(history) - 1].role = "user"
    /\ history[Len(history) - 2] = [role |-> "assistant", content |-> Text_stealth_request]
    /\ ResolvedContext = [kind |-> "check", skill |-> skill_list[1], dc |-> 14, ac |-> Null]

(***************************************************************************)
(* Claims about the failures of the upstream calls, checked under          *)
(* SpecUpstream                                                            *)
(***************************************************************************)
\* the models /dm/respond calls, in the order of the calls: the configured model
\* if there is one and it is not the fallback model, then the fallback model
Attempts(requested_model) ==
    IF requested_model \in {"", FallbackModel}
    THEN <<FallbackModel>>
    ELSE <<requested_model, FallbackModel>>

\* the attempts that answer 200
Answering(attempts, outcomes) == {k \in 1..Len(attempts) : outcomes[k] = "200"}

Text_please_roll_stealth == <<"P", "l", "e", "a", "s", "e", " ", "r", "o", "l", "l", " ", "S", "t", "e", "a",
      "l", "t", "h", " ", "c", "h", "e", "c", "k", ".">>

\* C29: no failure of an upstream call gives an error response. /dm/respond
\* calls the configured model and then the fallback model, answers with the text
\* of the first call that answers 200, and with the response of the local
\* heuristic when no call does (or no key is set); /dm/options answers with
\* status 200 and the generic options when its call ends in a non-200 answer or
\* an exception.
C29_UpstreamFailuresAbsorbed ==
    pc = "responded" =>
        /\ via = "none" =>
              /\ status = 200
              /\ options = IF env.api_key /\ env.outcome = "200"
                           THEN normalize_options(raw)
                           ELSE GenericOptions
        /\ via # "none" =>
              /\ via \in {"followup", "model", "heuristic"}
              /\ via = "followup" <=> result # Null
              /\ result = Null =>
                    \A hits \in {Answering(Attempts(env.requested_model), env.outcomes)} :
                        IF env.api_key /\ hits # {}
                        THEN /\ via = "model"
                             /\ \A answer \in {rstrip(IF Least(hits) = 1 THEN env.content
                                                        ELSE env.content2)} :
                                    SubSeq(text, 1, Len(answer)) = answer
                        ELSE /\ via = "heuristic"
                             /\ text = heuristic_response(message, env.inline).text
                             /\ roll_requests = heuristic_response(message, env.inline).roll_requests
                             /\ message = Text_I_hide /\ ~env.inline =>
                                    text = Text_please_roll_stealth

\* the configured model fails, the fallback model answers 200 with another
\* text than the configured model would have, and that text is the response
C29_Witness ==
    /\ pc = "responded"
    /\ via = "model"
    /\ env.requested_model = "openai/gpt-4o-mini"
    /\ env.outcomes = <<"non200", "200">>
    /\ env.content2 # env.content
    /\ ~env.inline
    /\ text = env.content2

====
